---- MODULE Spec2Model ----
(***************************************************************************)
(* A model of the reconciliation engine of HubSpotRelationshipMapper.js:   *)
(* the React component's state (deals, companies, loading, error,          *)
(* searchTerm), the data-load effect, and the memoised derivations         *)
(* (directIdMapping, domainMapping, brandMapping, combinedRelationships,   *)
(* filteredRelationships, strategyStats) recomputed at every render.       *)
(*                                                                         *)
(* JavaScript values are records [t, s, n, b]: t is the typeof tag         *)
(* ("undefined", "null", "string", "number", "boolean", and "NaN" for the  *)
(* number NaN), s the characters of a string (a sequence of one-character  *)
(* strings), n the value of a number (an integer: the inputs hold no       *)
(* fractions), b the value of a boolean.                                   *)
(***************************************************************************)
EXTENDS Integers, Sequences, FiniteSets, TLC

VARIABLES
    pc,                     \* position of the loadData effect
    deals,                  \* useState: the parsed deal rows
    companies,              \* useState: the parsed company rows
    loading,                \* useState
    error,                  \* useState
    activeStrategy,         \* useState: the tab shown
    searchTerm,             \* useState
    dealsFetched,           \* loadData's local: the deals rows already fetched
    consoleLog,             \* what the last render's directIdMapping logged
    directIdMapping,        \* useMemo results of the last render
    domainGroups,
    domainMapping,
    brandMapping,
    combinedRelationships,
    revenueValidation,
    revenueValidationById,  \* the variant build's Strategy 4, by company id
    filteredRelationships,
    strategyStats,
    renderError             \* the last render threw: nothing was derived

vars == <<pc, deals, companies, loading, error, activeStrategy, searchTerm, dealsFetched,
          consoleLog, directIdMapping, domainGroups, domainMapping,
          brandMapping, revenueValidation, revenueValidationById,
          combinedRelationships, filteredRelationships, strategyStats, renderError>>

----------------------------------------------------------------------------
(* JavaScript values                                                       *)

Undef == [t |-> "undefined", s |-> <<>>, n |-> 0, b |-> FALSE]
Null == [t |-> "null", s |-> <<>>, n |-> 0, b |-> FALSE]
NaN == [t |-> "NaN", s |-> <<>>, n |-> 0, b |-> FALSE]
Str(chars) == [t |-> "string", s |-> chars, n |-> 0, b |-> FALSE]
Num(k) == [t |-> "number", s |-> <<>>, n |-> k, b |-> FALSE]
Bool(v) == [t |-> "boolean", s |-> <<>>, n |-> 0, b |-> v]

\* ToBoolean: undefined, null, NaN, 0, "" and false are falsy.
Truthy(v) ==
    CASE v.t = "string" -> v.s # <<>>
      [] v.t = "number" -> v.n # 0
      [] v.t = "boolean" -> v.b
      [] OTHER -> FALSE

\* a || d
Or(a, d) == IF Truthy(a) THEN a ELSE d

\* a && c
And(a, c) == IF Truthy(a) THEN c ELSE a

\* obj[key] of a plain row object: undefined when the column is missing.
Field(row, key) == IF key \in DOMAIN row THEN row[key] ELSE Undef

\* The least and the greatest element of a non-empty set of integers
Least(S) == CHOOSE i \in S : \A j \in S : i <= j
Greatest(S) == CHOOSE i \in S : \A j \in S : j <= i

----------------------------------------------------------------------------
(* Strings                                                                 *)

DigitChars == <<"0", "1", "2", "3", "4", "5", "6", "7", "8", "9">>
UpperChars == <<"A", "B", "C", "D", "E", "F", "G", "H", "I", "J", "K", "L", "M",
                "N", "O", "P", "Q", "R", "S", "T", "U", "V", "W", "X", "Y", "Z">>
LowerChars == <<"a", "b", "c", "d", "e", "f", "g", "h", "i", "j", "k", "l", "m",
                "n", "o", "p", "q", "r", "s", "t", "u", "v", "w", "x", "y", "z">>
WhiteSpace == {" "}

IsDigit(c) == \E i \in 1..10 : DigitChars[i] = c
DigitValue(c) == (CHOOSE i \in 1..10 : DigitChars[i] = c) - 1

\* The decimal digits of a natural number (below 10^7: the numbers of the
\* inputs are small)
PowersOfTen == <<1, 10, 100, 1000, 10000, 100000, 1000000>>
NatToChars(k) ==
    LET n == Greatest({d \in 1..Len(PowersOfTen) : d = 1 \/ PowersOfTen[d] <= k})
    IN  [i \in 1..n |-> DigitChars[((k \div PowersOfTen[n - i + 1]) % 10) + 1]]

IntToChars(k) == IF k < 0 THEN <<"-">> \o NatToChars(0 - k) ELSE NatToChars(k)

\* String(v)
StringOf(v) ==
    CASE v.t = "string" -> v.s
      [] v.t = "number" -> IntToChars(v.n)
      [] v.t = "boolean" -> IF v.b THEN <<"t", "r", "u", "e">>
                            ELSE <<"f", "a", "l", "s", "e">>
      [] v.t = "null" -> <<"n", "u", "l", "l">>
      [] v.t = "NaN" -> <<"N", "a", "N">>
      [] OTHER -> <<"u", "n", "d", "e", "f", "i", "n", "e", "d">>

LowerChar(c) ==
    IF \E i \in 1..26 : UpperChars[i] = c
    THEN LowerChars[CHOOSE i \in 1..26 : UpperChars[i] = c]
    ELSE c

\* String.prototype.toLowerCase
ToLowerCase(chars) == [i \in 1..Len(chars) |-> LowerChar(chars[i])]

\* String.prototype.trim
Trim(chars) ==
    LET keep == {i \in 1..Len(chars) : chars[i] \notin WhiteSpace}
    IN  IF keep = {} THEN <<>> ELSE SubSeq(chars, Least(keep), Greatest(keep))

StartsWith(chars, prefix) ==
    /\ Len(prefix) <= Len(chars)
    /\ SubSeq(chars, 1, Len(prefix)) = prefix

\* String.prototype.includes
Includes(chars, part) ==
    \E i \in 0..(Len(chars) - Len(part)) :
        SubSeq(chars, i + 1, i + Len(part)) = part

\* String.prototype.split on a one-character separator: "" splits to [""].
Split(chars, sep) ==
    LET at == {i \in 1..Len(chars) : chars[i] = sep}
        \* the place of the k-th separator; 0 and Len(chars) + 1 at the ends
        place(k) == IF k = 0 THEN 0
                    ELSE IF k > Cardinality(at) THEN Len(chars) + 1
                    ELSE CHOOSE i \in at : Cardinality({j \in at : j < i}) = k - 1
    IN  [k \in 1..(Cardinality(at) + 1) |->
            SubSeq(chars, place(k - 1) + 1, place(k) - 1)]

\* Array.prototype.join with a one-character separator
Join(parts, sep) ==
    IF parts = <<>> THEN <<>>
    ELSE LET joined[i \in 1..Len(parts)] ==
                 IF i = 1 THEN parts[1] ELSE joined[i - 1] \o <<sep>> \o parts[i]
         IN  joined[Len(parts)]

\* Array.prototype.slice(-2)
SliceLastTwo(parts) ==
    IF Len(parts) <= 2 THEN parts ELSE SubSeq(parts, Len(parts) - 1, Len(parts))

\* The value of the longest run of digits chars starts with
DigitsValue(chars) ==
    LET stop == {i \in 1..Len(chars) : ~IsDigit(chars[i])} \cup {Len(chars) + 1}
        value[i \in 0..Len(chars)] ==
            IF i = 0 THEN 0 ELSE value[i - 1] * 10 + DigitValue(chars[i])
    IN  value[Least(stop) - 1]

\* chars without its leading white space
SkipWhiteSpace(chars) ==
    LET first == {i \in 1..Len(chars) : chars[i] \notin WhiteSpace}
    IN  IF first = {} THEN <<>> ELSE SubSeq(chars, Least(first), Len(chars))

\* body without its sign, when it starts with one
Unsigned(body) ==
    IF body # <<>> /\ Head(body) \in {"-", "+"} THEN Tail(body) ELSE body

\* The number body reads as, digits being body after its sign
SignedValue(body, digits) ==
    IF digits = <<>> \/ ~IsDigit(Head(digits)) THEN NaN
    ELSE IF Head(body) = "-" THEN Num(0 - DigitsValue(digits))
    ELSE Num(DigitsValue(digits))

ParseBody(body) == SignedValue(body, Unsigned(body))

\* parseFloat(v): String(v), leading white space skipped, an optional sign,
\* then the longest run of digits; NaN when no digit is found.  (The inputs
\* hold no fraction or exponent after a digit run.)
ParseFloat(v) ==
    IF v.t = "number" THEN v ELSE ParseBody(SkipWhiteSpace(StringOf(v)))

\* parseFloat(v) || 0, as a number
ParseFloatOrZero(v) == Or(ParseFloat(v), Num(0)).n

----------------------------------------------------------------------------
(* String literals of the source                                           *)

UnnamedDeal == <<"U", "n", "n", "a", "m", "e", "d", " ", "D", "e", "a", "l">>
UnnamedCompany ==
    <<"U", "n", "n", "a", "m", "e", "d", " ", "C", "o", "m", "p", "a", "n", "y">>
UnnamedParent ==
    <<"U", "n", "n", "a", "m", "e", "d", " ", "P", "a", "r", "e", "n", "t">>
UnnamedChild ==
    <<"U", "n", "n", "a", "m", "e", "d", " ", "C", "h", "i", "l", "d">>
Unknown == <<"U", "n", "k", "n", "o", "w", "n">>
Won == <<"w", "o", "n">>
Lost == <<"l", "o", "s", "t">>
Closed == <<"c", "l", "o", "s", "e", "d">>
WwwDot == <<"w", "w", "w", ".">>

----------------------------------------------------------------------------
(* Strategy 1: directIdMapping                                             *)

\* primaryCompanyId !== undefined && primaryCompanyId !== null &&
\* String(primaryCompanyId).trim() !== ''
HasPrimaryCompanyId(deal) ==
    LET primaryCompanyId == Field(deal, "Associated Company IDs (Primary)")
    IN  /\ primaryCompanyId # Undef
        /\ primaryCompanyId # Null
        /\ Trim(StringOf(primaryCompanyId)) # <<>>

\* A comparison without String(): c['Record ID'] === primaryCompanyId
IdMatchesStrictly(company, primaryCompanyId) ==
    Field(company, "Record ID") = primaryCompanyId

\* c => String(c['Record ID']) === String(primaryCompanyId)
IdMatches(company, primaryCompanyId) ==
    StringOf(Field(company, "Record ID")) = StringOf(primaryCompanyId)

\* companies.find(...): the index of the first match, 0 when there is none
FindCompany(cs, primaryCompanyId) ==
    LET hits == {i \in 1..Len(cs) : IdMatches(cs[i], primaryCompanyId)}
    IN  IF hits = {} THEN 0 ELSE Least(hits)

\* deal['Is Closed Won'] === true ||
\*   (deal['Deal Stage'] && String(deal['Deal Stage']).toLowerCase().includes('won'))
IsClosedWonOf(deal) ==
    LET stage == Field(deal, "Deal Stage")
    IN  IF Field(deal, "Is Closed Won") = Bool(TRUE) THEN Bool(TRUE)
        ELSE And(stage, Bool(Includes(ToLowerCase(StringOf(stage)), Won)))

\* The object pushed for a deal and the company found for it.
MappingOf(deal, company) ==
    [dealId |-> Field(deal, "Record ID"),
     dealName |-> Or(Field(deal, "Deal Name"), Str(UnnamedDeal)),
     companyId |-> Field(company, "Record ID"),
     companyName |-> Or(Field(company, "Company name"), Str(UnnamedCompany)),
     relationship |-> "primary",
     confidence |-> 100,
     amount |-> ParseFloatOrZero(Field(deal, "Budget")),
     campaignBrand |-> Or(Field(deal, "Campaign Brand"), Str(<<>>)),
     dealStage |-> Or(Field(deal, "Deal Stage"), Str(Unknown)),
     pipeline |-> Or(Field(deal, "Pipeline"), Str(Unknown)),
     closeDate |-> Field(deal, "Close Date"),
     createDate |-> Field(deal, "Create Date"),
     isClosedWon |-> IsClosedWonOf(deal)]

\* The mappings one iteration of deals.forEach pushes: none or one.
MappingAt(deal, cs, found) ==
    IF found = 0 THEN <<>> ELSE <<MappingOf(deal, cs[found])>>

\* A loop that pushes a mapping for every company that matches
DealMappingsOfAll(deal, cs) ==
    IF HasPrimaryCompanyId(deal)
    THEN [k \in 1..Len(SelectSeq(cs, LAMBDA c :
                 IdMatches(c, Field(deal, "Associated Company IDs (Primary)")))) |->
             MappingOf(deal, SelectSeq(cs, LAMBDA c :
                 IdMatches(c, Field(deal, "Associated Company IDs (Primary)")))[k])]
    ELSE <<>>

DealMappings(deal, cs) ==
    MappingAt(deal, cs,
              IF HasPrimaryCompanyId(deal)
              THEN FindCompany(cs, Field(deal, "Associated Company IDs (Primary)"))
              ELSE 0)

\* deals.forEach over the locals mappings and unmappedCount
PushMappings(acc, pushed) ==
    [mappings |-> acc.mappings \o pushed,
     unmappedCount |-> IF pushed = <<>> THEN acc.unmappedCount + 1
                       ELSE acc.unmappedCount]

DirectIdLoop(ds, cs) ==
    LET acc[i \in 0..Len(ds)] ==
            IF i = 0 THEN [mappings |-> <<>>, unmappedCount |-> 0]
            ELSE PushMappings(acc[i - 1], DealMappings(ds[i], cs))
    IN  acc[Len(ds)]

\* console.log(`Direct ID Mapping: ... mapped, ... unmapped`), and the return
LogAndReturn(done) ==
    [mappings |-> done.mappings,
     log |-> <<[mapped |-> Len(done.mappings), unmapped |-> done.unmappedCount]>>]

\* The memo: its value (mappings) and what it writes to the console.  The
\* early return comes before unmappedCount exists and before console.log.
DirectIdMemo(ds, cs) ==
    IF ds = <<>> \/ cs = <<>>
    THEN [mappings |-> <<>>, log |-> <<>>]
    ELSE LogAndReturn(DirectIdLoop(ds, cs))

DirectIdMapping(ds, cs) == DirectIdMemo(ds, cs).mappings

----------------------------------------------------------------------------
(* Strategy 2: domainMapping                                               *)

\* domain.toLowerCase().replace(/^www\./, '').trim()
StripWww(lower) ==
    IF StartsWith(lower, WwwDot) THEN SubSeq(lower, Len(WwwDot) + 1, Len(lower))
    ELSE lower

CleanDomain(chars) == Trim(StripWww(ToLowerCase(chars)))

\* A key that keeps every label of the cleaned domain
RootDomainOfHost(chars) == CleanDomain(chars)

\* cleanDomain.split('.').slice(-2).join('.')
RootDomain(chars) == Join(SliceLastTwo(Split(CleanDomain(chars), ".")), ".")

\* domain && typeof domain === 'string' && domain.trim() !== ''
HasDomain(company) ==
    LET domain == Field(company, "Company Domain Name")
    IN  Truthy(domain) /\ domain.t = "string" /\ Trim(domain.s) # <<>>

\* Groups that live on from one evaluation of the memo to the next
KeptDomainGroups(earlier) == earlier

\* const domainGroups = {}: the object every evaluation of the memo starts
\* from, whatever an earlier evaluation (earlier) has built.
NewDomainGroups(earlier) == <<>>

\* domainGroups[rootDomain].push(company), the array created on first use.
\* The object is kept as its entries, in insertion order.
PushToGroup(groups, rootDomain, company) ==
    IF \E i \in 1..Len(groups) : groups[i].domain = rootDomain
    THEN [i \in 1..Len(groups) |->
             IF groups[i].domain = rootDomain
             THEN [groups[i] EXCEPT !.members = Append(@, company)]
             ELSE groups[i]]
    ELSE Append(groups, [domain |-> rootDomain, members |-> <<company>>])

\* companies.forEach(company => ...)
GroupByDomain(cs, domainGroups0) ==
    LET groups[i \in 0..Len(cs)] ==
            IF i = 0 THEN domainGroups0
            ELSE IF HasDomain(cs[i])
            THEN PushToGroup(groups[i - 1],
                     RootDomain(Field(cs[i], "Company Domain Name").s), cs[i])
            ELSE groups[i - 1]
    IN  groups[Len(cs)]

\* Metrics counted on the mappings of the render before
WithMetricsOfEarlier(company, mappings) ==
    [company |-> company,
     dealCount |-> Cardinality({i \in 1..Len(directIdMapping) :
                       directIdMapping[i].companyId = Field(company, "Record ID")}),
     totalRevenue |-> ParseFloatOrZero(Field(company, "Total Revenue"))]

\* relatedCompanies.map(company => ({ ...company, dealCount, totalRevenue }))
WithMetrics(company, mappings) ==
    [company |-> company,
     dealCount |-> Cardinality({i \in 1..Len(mappings) :
                       mappings[i].companyId = Field(company, "Record ID")}),
     totalRevenue |-> ParseFloatOrZero(Field(company, "Total Revenue"))]

\* A reducer that looks at the revenue only
PreferParentByRevenue(prev, curr) ==
    IF curr.totalRevenue > prev.totalRevenue THEN curr ELSE prev

\* The reducer: prioritise by deal count, then by revenue, else keep prev.
PreferParent(prev, curr) ==
    IF curr.dealCount > prev.dealCount THEN curr
    ELSE IF curr.dealCount = prev.dealCount /\ curr.totalRevenue > prev.totalRevenue
    THEN curr
    ELSE prev

\* reduce without an initial value: it starts from the first element
ReduceParent(companiesWithMetrics) ==
    LET parent[i \in 1..Len(companiesWithMetrics)] ==
            IF i = 1 THEN companiesWithMetrics[1]
            ELSE PreferParent(parent[i - 1], companiesWithMetrics[i])
    IN  parent[Len(companiesWithMetrics)]

ParentOf(relatedCompanies, mappings) ==
    ReduceParent([i \in 1..Len(relatedCompanies) |->
                     WithMetrics(relatedCompanies[i], mappings)])

\* A relationship pushed with another confidence
RelationshipOfGuess(parent, company, domain) ==
    [parentId |-> Field(parent.company, "Record ID"),
     parentName |-> Or(Field(parent.company, "Company name"), Str(UnnamedParent)),
     childId |-> Field(company, "Record ID"),
     childName |-> Or(Field(company, "Company name"), Str(UnnamedChild)),
     confidence |-> 50,
     basis |-> "domain",
     domain |-> domain,
     parentDealCount |-> parent.dealCount,
     parentRevenue |-> parent.totalRevenue]

RelationshipOf(parent, company, domain) ==
    [parentId |-> Field(parent.company, "Record ID"),
     parentName |-> Or(Field(parent.company, "Company name"), Str(UnnamedParent)),
     childId |-> Field(company, "Record ID"),
     childName |-> Or(Field(company, "Company name"), Str(UnnamedChild)),
     confidence |-> 75,
     basis |-> "domain",
     domain |-> domain,
     parentDealCount |-> parent.dealCount,
     parentRevenue |-> parent.totalRevenue]

\* relatedCompanies.forEach: every member whose Record ID !== the parent's
ChildRelationships(parent, members, domain) ==
    LET pushed[i \in 0..Len(members)] ==
            IF i = 0 THEN <<>>
            ELSE IF Field(members[i], "Record ID") # Field(parent.company, "Record ID")
            THEN Append(pushed[i - 1], RelationshipOf(parent, members[i], domain))
            ELSE pushed[i - 1]
    IN  pushed[Len(members)]

\* The relationships of one entry of domainGroups.
GroupRelationships(group, mappings) ==
    IF Len(group.members) > 1
    THEN ChildRelationships(ParentOf(group.members, mappings), group.members,
                            group.domain)
    ELSE <<>>

\* Object.entries(domainGroups).forEach(...)
AllRelationships(groups, mappings) ==
    LET relationships[i \in 0..Len(groups)] ==
            IF i = 0 THEN <<>>
            ELSE relationships[i - 1] \o GroupRelationships(groups[i], mappings)
    IN  relationships[Len(groups)]

\* The groups the memo builds, given what an earlier evaluation built.
DomainGroups(cs, earlier) == GroupByDomain(cs, NewDomainGroups(earlier))

DomainMapping(cs, mappings, earlier) ==
    AllRelationships(DomainGroups(cs, earlier), mappings)

----------------------------------------------------------------------------
(* Plain objects used as maps: their entries [key, value], in insertion    *)
(* order (the keys of the inputs are neither integer-like nor names of     *)
(* Object.prototype, so Object.keys is the insertion order).               *)

ObjHas(obj, key) == \E i \in 1..Len(obj) : obj[i].key = key

ObjGet(obj, key, default) ==
    IF ObjHas(obj, key)
    THEN obj[CHOOSE i \in 1..Len(obj) : obj[i].key = key].value
    ELSE default

ObjPut(obj, key, value) ==
    IF ObjHas(obj, key)
    THEN [i \in 1..Len(obj) |->
             IF obj[i].key = key THEN [key |-> key, value |-> value] ELSE obj[i]]
    ELSE Append(obj, [key |-> key, value |-> value])

\* obj[key] = (obj[key] || 0) + by
ObjAdd(obj, key, by) == ObjPut(obj, key, ObjGet(obj, key, 0) + by)

\* a / b as the exact quotient num/den
Ratio(a, b) == [num |-> a, den |-> b]

\* raw.split(';').map(x => x.trim()).filter(x => x !== ''), [] unless raw is
\* a non-empty string
TrimAll(parts) == [i \in 1..Len(parts) |-> Trim(parts[i])]

SplitList(raw) ==
    IF Truthy(raw) /\ raw.t = "string"
    THEN SelectSeq(TrimAll(Split(raw.s, ";")), LAMBDA x : x # <<>>)
    ELSE <<>>

----------------------------------------------------------------------------
(* Strategy 3: brandMapping                                                *)

\* new Date(closeDate).toISOString().slice(0, 7).  The close dates of the
\* inputs are absent, ISO dates "YYYY-MM-DD" or text that is no date.
IsIsoDate(v) ==
    /\ v.t = "string"
    /\ Len(v.s) = 10
    /\ \A i \in {1, 2, 3, 4, 6, 7, 9, 10} : IsDigit(v.s[i])
    /\ v.s[5] = "-" /\ v.s[8] = "-"

MonthYear(closeDate) == SubSeq(closeDate.s, 1, 7)

\* A loop body that gives each brand of the deal its share of the budget
AddBrandShare(acc, brand, deal) ==
    LET revenue == ParseFloatOrZero(Field(deal, "Budget"))
                       \div Len(SplitList(Field(deal, "Campaign Brand")))
    IN  [acc EXCEPT !.brandRevenue = ObjAdd(@, brand, revenue),
                    !.brandDealCounts = ObjAdd(@, brand, 1)]

\* The body of brands.forEach for one brand of one deal.
AddBrand(acc, brand, deal) ==
    LET revenue == ParseFloatOrZero(Field(deal, "Budget"))
        pipeline == StringOf(Or(Field(deal, "Pipeline"), Str(Unknown)))
        stage == StringOf(Or(Field(deal, "Deal Stage"), Str(Unknown)))
        primaryCompanyId == Field(deal, "Associated Company IDs (Primary)")
        closeDate == Field(deal, "Close Date")
    IN  [brandRevenue |-> ObjAdd(acc.brandRevenue, brand, revenue),
         brandDealCounts |-> ObjAdd(acc.brandDealCounts, brand, 1),
         brandPipelines |->
             ObjPut(acc.brandPipelines, brand,
                    ObjAdd(ObjGet(acc.brandPipelines, brand, <<>>), pipeline, 1)),
         brandStages |->
             ObjPut(acc.brandStages, brand,
                    ObjAdd(ObjGet(acc.brandStages, brand, <<>>), stage, 1)),
         brandTimeSeries |->
             IF Truthy(closeDate)
             THEN ObjPut(acc.brandTimeSeries, brand,
                         ObjAdd(ObjGet(acc.brandTimeSeries, brand, <<>>),
                                MonthYear(closeDate), revenue))
             ELSE acc.brandTimeSeries,
         brandCompanies |->
             IF HasPrimaryCompanyId(deal)
             THEN ObjPut(acc.brandCompanies, brand,
                         ObjGet(acc.brandCompanies, brand, {}) \cup {primaryCompanyId})
             ELSE acc.brandCompanies]

\* brands.forEach(brand => ...)
AddBrands(acc, brands, deal) ==
    LET a[i \in 0..Len(brands)] ==
            IF i = 0 THEN acc ELSE AddBrand(a[i - 1], brands[i], deal)
    IN  a[Len(brands)]

\* deals.forEach(deal => ...)
BrandLoop(ds, acc) ==
    LET a[i \in 0..Len(ds)] ==
            IF i = 0 THEN acc
            ELSE AddBrands(a[i - 1], SplitList(Field(ds[i], "Campaign Brand")), ds[i])
    IN  a[Len(ds)]

\* Object.values(obj).reduce((sum, x) => sum + x, 0)
SumValues(obj) ==
    LET sum[i \in 0..Len(obj)] == IF i = 0 THEN 0 ELSE sum[i - 1] + obj[i].value
    IN  sum[Len(obj)]

\* The count of the stage entries whose name contains "won"
WonCount(stages) ==
    SumValues(SelectSeq(stages, LAMBDA entry : Includes(ToLowerCase(entry.key), Won)))

BrandMetricOf(acc, brand) ==
    LET stages == ObjGet(acc.brandStages, brand, <<>>)
        dealCount == ObjGet(acc.brandDealCounts, brand, 0)
    IN  [brand |-> brand,
         revenue |-> ObjGet(acc.brandRevenue, brand, 0),
         dealCount |-> dealCount,
         avgDealSize |-> Ratio(ObjGet(acc.brandRevenue, brand, 0), dealCount),
         companyCount |-> Cardinality(ObjGet(acc.brandCompanies, brand, {})),
         winRate |-> Ratio(WonCount(stages) * 100, dealCount),
         pipelines |-> ObjGet(acc.brandPipelines, brand, <<>>),
         stages |-> stages]

\* Array.prototype.sort((a, b) => b.revenue - a.revenue): stable, descending
InsertByRevenue(sorted, m) ==
    SelectSeq(sorted, LAMBDA x : x.revenue >= m.revenue)
    \o <<m>> \o SelectSeq(sorted, LAMBDA x : x.revenue < m.revenue)

SortByRevenue(metrics) ==
    LET sorted[i \in 0..Len(metrics)] ==
            IF i = 0 THEN <<>> ELSE InsertByRevenue(sorted[i - 1], metrics[i])
    IN  sorted[Len(metrics)]

\* The object the memo returns, acc being the maps the loop has filled
BrandResult(acc) ==
    [brandRevenue |-> acc.brandRevenue,
     brandCompanies |-> acc.brandCompanies,
     brandDealCounts |-> acc.brandDealCounts,
     brandPipelines |-> acc.brandPipelines,
     brandStages |-> acc.brandStages,
     brandTimeSeries |-> acc.brandTimeSeries,
     brandMetrics |->
         SortByRevenue([i \in 1..Len(acc.brandRevenue) |->
                           BrandMetricOf(acc, acc.brandRevenue[i].key)]),
     totalBrands |-> Len(acc.brandRevenue),
     totalBrandRevenue |-> SumValues(acc.brandRevenue)]

BrandMapping(ds) ==
    BrandResult(BrandLoop(ds, [brandRevenue |-> <<>>, brandCompanies |-> <<>>,
                               brandDealCounts |-> <<>>, brandPipelines |-> <<>>,
                               brandStages |-> <<>>, brandTimeSeries |-> <<>>]))

\* toISOString throws a RangeError on an invalid date.
BrandMappingThrows(ds) ==
    \E i \in 1..Len(ds) :
        /\ SplitList(Field(ds[i], "Campaign Brand")) # <<>>
        /\ Truthy(Field(ds[i], "Close Date"))
        /\ ~IsIsoDate(Field(ds[i], "Close Date"))

----------------------------------------------------------------------------
(* Strategy 4: revenueValidation, keyed by company name                    *)

\* deal['Deal Stage'] || 'Unknown'
DealStageOf(deal) == Or(Field(deal, "Deal Stage"), Str(Unknown))

\* A test of the stage text alone
StageIsWonByText(deal) == Includes(ToLowerCase(DealStageOf(deal).s), Won)

\* deal['Is Closed Won'] === true ||
\*   (dealStage && dealStage.toLowerCase().includes('won'))
StageIsWon(deal) ==
    \/ Field(deal, "Is Closed Won") = Bool(TRUE)
    \/ Includes(ToLowerCase(DealStageOf(deal).s), Won)

NewAnalysis(companyName) ==
    [companyName |-> companyName, totalMediaBudget |-> 0, totalPOAmount |-> 0,
     dealCount |-> 0, wonDeals |-> 0, openDeals |-> 0, lostDeals |-> 0,
     deals |-> <<>>]

\* A loop body whose three counters are tested one by one, each on its own
AddDealCountedByEachTest(analysis, deal) ==
    LET dealStage == DealStageOf(deal)
    IN  [analysis EXCEPT
            !.totalMediaBudget = @ + ParseFloatOrZero(Field(deal, "Budget")),
            !.totalPOAmount = @ + ParseFloatOrZero(Field(deal, "Amount")),
            !.dealCount = @ + 1,
            !.deals = Append(@, [name |-> Or(Field(deal, "Deal Name"), Str(UnnamedDeal)),
                                 stage |-> dealStage,
                                 mediaBudget |-> ParseFloatOrZero(Field(deal, "Budget")),
                                 poAmount |-> ParseFloatOrZero(Field(deal, "Amount")),
                                 closeDate |-> Field(deal, "Close Date")]),
            !.wonDeals = IF StageIsWon(deal) THEN @ + 1 ELSE @,
            !.lostDeals = IF Includes(ToLowerCase(dealStage.s), Lost) THEN @ + 1 ELSE @,
            !.openDeals = IF ~Includes(ToLowerCase(dealStage.s), Won)
                             /\ ~Includes(ToLowerCase(dealStage.s), Lost)
                          THEN @ + 1 ELSE @]

\* The body of associatedCompanies.forEach for one name of one deal.
AddDealToCompany(analysis, deal) ==
    LET dealMediaBudget == ParseFloatOrZero(Field(deal, "Budget"))
        dealPOAmount == ParseFloatOrZero(Field(deal, "Amount"))
        dealStage == DealStageOf(deal)
        isLost == Includes(ToLowerCase(dealStage.s), Lost)
    IN  [analysis EXCEPT
            !.totalMediaBudget = @ + dealMediaBudget,
            !.totalPOAmount = @ + dealPOAmount,
            !.dealCount = @ + 1,
            !.deals = Append(@, [name |-> Or(Field(deal, "Deal Name"), Str(UnnamedDeal)),
                                 stage |-> dealStage,
                                 mediaBudget |-> dealMediaBudget,
                                 poAmount |-> dealPOAmount,
                                 closeDate |-> Field(deal, "Close Date")]),
            !.wonDeals = IF StageIsWon(deal) THEN @ + 1 ELSE @,
            !.lostDeals = IF ~StageIsWon(deal) /\ isLost THEN @ + 1 ELSE @,
            !.openDeals = IF ~StageIsWon(deal) /\ ~isLost THEN @ + 1 ELSE @]

\* A loop that adds the deal to the first company of the list only
AddDealToFirstCompany(companyDealAnalysis, names, deal) ==
    IF names = <<>> THEN companyDealAnalysis
    ELSE ObjPut(companyDealAnalysis, names[1],
                AddDealToCompany(ObjGet(companyDealAnalysis, names[1],
                                        NewAnalysis(names[1])), deal))

\* associatedCompanies.forEach(companyName => ...)
AddDealToCompanies(companyDealAnalysis, names, deal) ==
    LET analysisByName[i \in 0..Len(names)] ==
            IF i = 0 THEN companyDealAnalysis
            ELSE ObjPut(analysisByName[i - 1], names[i],
                        AddDealToCompany(ObjGet(analysisByName[i - 1], names[i],
                                                NewAnalysis(names[i])), deal))
    IN  analysisByName[Len(names)]

\* deals.forEach(deal => ...)
RevenueLoop(ds) ==
    LET analysisByName[i \in 0..Len(ds)] ==
            IF i = 0 THEN <<>>
            ELSE AddDealToCompanies(analysisByName[i - 1],
                     SplitList(Field(ds[i], "Associated Company")), ds[i])
    IN  analysisByName[Len(ds)]

ValidationOf(analysis) ==
    [companyName |-> analysis.companyName,
     totalMediaBudget |-> analysis.totalMediaBudget,
     totalPOAmount |-> analysis.totalPOAmount,
     dealCount |-> analysis.dealCount,
     wonDeals |-> analysis.wonDeals,
     openDeals |-> analysis.openDeals,
     lostDeals |-> analysis.lostDeals,
     winRate |-> IF analysis.dealCount > 0
                 THEN Ratio(analysis.wonDeals * 100, analysis.dealCount)
                 ELSE Ratio(0, 1),
     avgPOAmount |-> IF analysis.dealCount > 0
                     THEN Ratio(analysis.totalPOAmount, analysis.dealCount)
                     ELSE Ratio(0, 1),
     avgMediaBudget |-> IF analysis.dealCount > 0
                        THEN Ratio(analysis.totalMediaBudget, analysis.dealCount)
                        ELSE Ratio(0, 1),
     deals |-> analysis.deals]

\* Object.values(companyDealAnalysis).map(...)
ValidateAll(analysisByName) ==
    [i \in 1..Len(analysisByName) |-> ValidationOf(analysisByName[i].value)]

RevenueValidation(ds) ==
    SelectSeq(ValidateAll(RevenueLoop(ds)),
              LAMBDA item : item.totalMediaBudget > 0 \/ item.totalPOAmount > 0)

\* dealStage.toLowerCase is not a function when the stage is a truthy
\* value that is no string (a TypeError), unless the won flag short-circuits.
RevenueValidationThrows(ds) ==
    \E i \in 1..Len(ds) :
        /\ Field(ds[i], "Is Closed Won") # Bool(TRUE)
        /\ DealStageOf(ds[i]).t # "string"

----------------------------------------------------------------------------
(* Strategy 4 of the variant build: revenueValidation keyed by the id of   *)
(* the company the deal's primary reference resolves to                    *)

IsNumeral(chars) == chars # <<>> /\ \A i \in 1..Len(chars) : IsDigit(chars[i])

\* The number a trimmed text converts to: 0 for the empty text, NaN unless
\* it is a numeral with an optional sign
NumberOfText(chars) ==
    IF chars = <<>> THEN Num(0)
    ELSE IF IsNumeral(Unsigned(chars)) THEN SignedValue(chars, Unsigned(chars))
    ELSE NaN

\* ToNumber(v): the conversion that -, > and Math.abs apply
ToNumber(v) ==
    CASE v.t = "number" -> v
      [] v.t = "string" -> NumberOfText(Trim(v.s))
      [] v.t = "boolean" -> Num(IF v.b THEN 1 ELSE 0)
      [] v.t = "null" -> Num(0)
      [] OTHER -> NaN

\* a + b: concatenation when either is a string
Plus(a, b) ==
    IF a.t = "string" \/ b.t = "string" THEN Str(StringOf(a) \o StringOf(b))
    ELSE IF ToNumber(a) = NaN \/ ToNumber(b) = NaN THEN NaN
    ELSE Num(ToNumber(a).n + ToNumber(b).n)

\* Math.abs(a - b)
AbsDifference(a, b) ==
    IF ToNumber(a) = NaN \/ ToNumber(b) = NaN THEN NaN
    ELSE IF ToNumber(a).n >= ToNumber(b).n THEN Num(ToNumber(a).n - ToNumber(b).n)
    ELSE Num(ToNumber(b).n - ToNumber(a).n)

\* v > 0
IsPositive(v) == ToNumber(v) # NaN /\ ToNumber(v).n > 0

\* An accuracy without Math.max
AccuracyUnclamped(declaredRevenue, variance) ==
    IF ~IsPositive(declaredRevenue) THEN Ratio(0, 1)
    ELSE IF variance = NaN THEN NaN
    ELSE Ratio(100 * ToNumber(declaredRevenue).n - 100 * variance.n,
               ToNumber(declaredRevenue).n)

\* analysis.declaredRevenue > 0 ?
\*   Math.max(0, 100 - ((variance / analysis.declaredRevenue) * 100)) : 0
\* as the exact quotient
Accuracy(declaredRevenue, variance) ==
    IF ~IsPositive(declaredRevenue) THEN Ratio(0, 1)
    ELSE IF variance = NaN THEN NaN
    ELSE IF variance.n >= ToNumber(declaredRevenue).n THEN Ratio(0, 1)
    ELSE Ratio(100 * ToNumber(declaredRevenue).n - 100 * variance.n,
               ToNumber(declaredRevenue).n)

NewAnalysisById(company) ==
    [companyName |-> Field(company, "Company name"),
     declaredRevenue |-> Or(Field(company, "Total Revenue"), Num(0)),
     calculatedRevenue |-> Num(0), dealCount |-> 0, wonDeals |-> 0,
     openDeals |-> 0, deals |-> <<>>]

\* dealStage && typeof dealStage === 'string' && dealStage.toLowerCase().includes('won')
StageIsWonById(deal) ==
    LET dealStage == Field(deal, "Deal Stage")
    IN  /\ Truthy(dealStage) /\ dealStage.t = "string"
        /\ Includes(ToLowerCase(dealStage.s), Won)

\* dealStage && typeof dealStage === 'string' &&
\*   !dealStage.toLowerCase().includes('lost') && !dealStage.toLowerCase().includes('won')
StageIsOpenById(deal) ==
    LET dealStage == Field(deal, "Deal Stage")
    IN  /\ Truthy(dealStage) /\ dealStage.t = "string"
        /\ ~Includes(ToLowerCase(dealStage.s), Lost)
        /\ ~Includes(ToLowerCase(dealStage.s), Won)

\* The statements that add one deal to the analysis of its company
AddDealById(analysis, deal) ==
    [analysis EXCEPT
        !.calculatedRevenue = Plus(@, Or(Field(deal, "Budget"), Num(0))),
        !.dealCount = @ + 1,
        !.deals = Append(@, [name |-> Field(deal, "Deal Name"),
                             stage |-> Field(deal, "Deal Stage"),
                             revenue |-> Or(Field(deal, "Budget"), Num(0))]),
        !.wonDeals = IF StageIsWonById(deal) THEN @ + 1 ELSE @,
        !.openDeals = IF StageIsOpenById(deal) THEN @ + 1 ELSE @]

\* companyDealAnalysis[companyId], created when missing, gets the deal
AddDealToFound(companyDealAnalysis, companyId, company, deal) ==
    ObjPut(companyDealAnalysis, companyId,
           AddDealById(ObjGet(companyDealAnalysis, companyId, NewAnalysisById(company)),
                       deal))

\* The body of deals.forEach, found being the place of the company found
\* for the deal's reference (0: no reference, or no company for it)
AddDealAt(companyDealAnalysis, deal, cs, found) ==
    IF found = 0 THEN companyDealAnalysis
    ELSE AddDealToFound(companyDealAnalysis,
                        StringOf(Field(cs[found], "Record ID")), cs[found], deal)

RevenueLoopById(ds, cs) ==
    LET analysisById[i \in 0..Len(ds)] ==
            IF i = 0 THEN <<>>
            ELSE AddDealAt(analysisById[i - 1], ds[i], cs,
                     IF HasPrimaryCompanyId(ds[i])
                     THEN FindCompany(cs, Field(ds[i], "Associated Company IDs (Primary)"))
                     ELSE 0)
    IN  analysisById[Len(ds)]

\* Object.entries lists keys that are array indices in ascending order
\* (the Record IDs of the inputs are non-negative integers).
InsertByKey(sorted, entry) ==
    SelectSeq(sorted, LAMBDA x : DigitsValue(x.key) < DigitsValue(entry.key))
    \o <<entry>> \o SelectSeq(sorted, LAMBDA x : DigitsValue(x.key) > DigitsValue(entry.key))

EntriesOf(obj) ==
    LET sorted[i \in 0..Len(obj)] ==
            IF i = 0 THEN <<>> ELSE InsertByKey(sorted[i - 1], obj[i])
    IN  sorted[Len(obj)]

ValidationById(companyId, analysis, variance) ==
    [companyId |-> ParseFloat(Str(companyId)),
     companyName |-> analysis.companyName,
     declaredRevenue |-> analysis.declaredRevenue,
     calculatedRevenue |-> analysis.calculatedRevenue,
     variance |-> variance,
     accuracy |-> Accuracy(analysis.declaredRevenue, variance),
     dealCount |-> analysis.dealCount,
     wonDeals |-> analysis.wonDeals,
     openDeals |-> analysis.openDeals,
     winRate |-> IF analysis.dealCount > 0
                 THEN Ratio(analysis.wonDeals * 100, analysis.dealCount)
                 ELSE Ratio(0, 1)]

\* Object.entries(companyDealAnalysis).map(...)
ValidateAllById(entries) ==
    [i \in 1..Len(entries) |->
        ValidationById(entries[i].key, entries[i].value,
                       AbsDifference(entries[i].value.declaredRevenue,
                                     entries[i].value.calculatedRevenue))]

RevenueValidationById(ds, cs) ==
    SelectSeq(ValidateAllById(EntriesOf(RevenueLoopById(ds, cs))),
              LAMBDA item : IsPositive(item.calculatedRevenue))

----------------------------------------------------------------------------
(* combinedRelationships and filteredRelationships                         *)

\* { ...mapping, strategy: 'Enhanced ID', type: 'deal-company' }
TagMapping(mapping) ==
    [dealId |-> mapping.dealId, dealName |-> mapping.dealName,
     companyId |-> mapping.companyId, companyName |-> mapping.companyName,
     relationship |-> mapping.relationship, confidence |-> mapping.confidence,
     amount |-> mapping.amount, campaignBrand |-> mapping.campaignBrand,
     dealStage |-> mapping.dealStage, pipeline |-> mapping.pipeline,
     closeDate |-> mapping.closeDate, createDate |-> mapping.createDate,
     isClosedWon |-> mapping.isClosedWon,
     strategy |-> "Enhanced ID", type |-> "deal-company"]

\* { ...rel, strategy: 'Domain', type: 'parent-child' }
TagRelationship(rel) ==
    [parentId |-> rel.parentId, parentName |-> rel.parentName,
     childId |-> rel.childId, childName |-> rel.childName,
     confidence |-> rel.confidence, basis |-> rel.basis, domain |-> rel.domain,
     parentDealCount |-> rel.parentDealCount, parentRevenue |-> rel.parentRevenue,
     strategy |-> "Domain", type |-> "parent-child"]

\* A combiner that pushes the domain relationships first
CombinedDomainFirst(mappings, relationships) ==
    [i \in 1..Len(relationships) |-> TagRelationship(relationships[i])]
    \o [i \in 1..Len(mappings) |-> TagMapping(mappings[i])]

CombinedRelationships(mappings, relationships) ==
    [i \in 1..Len(mappings) |-> TagMapping(mappings[i])]
    \o [i \in 1..Len(relationships) |-> TagRelationship(relationships[i])]

SearchedFields == <<"dealName", "companyName", "parentName", "childName", "campaignBrand">>

\* rel.f: undefined when the entry has no such property
Prop(rel, f) == IF f \in DOMAIN rel THEN rel[f] ELSE Undef

\* rel.f?.toLowerCase().includes(lowerSearch), for a string or an absent f
FieldMatches(rel, f, lowerSearch) ==
    /\ Prop(rel, f) \notin {Undef, Null}
    /\ Includes(ToLowerCase(Prop(rel, f).s), lowerSearch)

\* rel.f?.toLowerCase is not a function: f is present and no string
FieldThrows(rel, f) == Prop(rel, f) \notin {Undef, Null} /\ Prop(rel, f).t # "string"

\* The || chain of the filter callback
RelMatches(rel, lowerSearch) ==
    \E k \in 1..Len(SearchedFields) : FieldMatches(rel, SearchedFields[k], lowerSearch)

\* The callback throws at the first field that is no string, unless an
\* earlier field of the chain has matched.
RelThrows(rel, lowerSearch) ==
    \E k \in 1..Len(SearchedFields) :
        /\ FieldThrows(rel, SearchedFields[k])
        /\ \A j \in 1..(k - 1) :
               /\ ~FieldThrows(rel, SearchedFields[j])
               /\ ~FieldMatches(rel, SearchedFields[j], lowerSearch)

FilteredRelationships(combined, term) ==
    IF term = <<>> THEN combined
    ELSE SelectSeq(combined, LAMBDA rel : RelMatches(rel, ToLowerCase(term)))

FilteredRelationshipsThrows(combined, term) ==
    /\ term # <<>>
    /\ \E i \in 1..Len(combined) : RelThrows(combined[i], ToLowerCase(term))

----------------------------------------------------------------------------
(* strategyStats                                                           *)

\* stage && typeof stage === 'string' && stage.toLowerCase().includes(part)
StageHas(deal, part) ==
    LET stage == Field(deal, "Deal Stage")
    IN  Truthy(stage) /\ stage.t = "string" /\ Includes(ToLowerCase(stage.s), part)

\* A reducer that reads the PO amount
DealValueOfAmount(deal) == ParseFloatOrZero(Field(deal, "Amount"))

\* deal['Budget'], as the reducer of totalDealValue reads it
DealValue(deal) == ParseFloatOrZero(Field(deal, "Budget"))

\* deals.reduce((sum, deal) => sum + (parseFloat(deal['Budget']) || 0), 0)
TotalDealValue(ds) ==
    LET sum[i \in 0..Len(ds)] == IF i = 0 THEN 0 ELSE sum[i - 1] + DealValue(ds[i])
    IN  sum[Len(ds)]

IsWonDeal(deal) == Field(deal, "Is Closed Won") = Bool(TRUE) \/ StageHas(deal, Won)

IsOpenDeal(deal) ==
    LET stage == Field(deal, "Deal Stage")
    IN  /\ Truthy(stage) /\ stage.t = "string"
        /\ ~Includes(ToLowerCase(stage.s), Closed)
        /\ ~Includes(ToLowerCase(stage.s), Lost)
        /\ ~Includes(ToLowerCase(stage.s), Won)

IsLostDeal(deal) == StageHas(deal, Lost)

\* A name that keeps the text of value as it is, empty for an absent one
NameOrEmpty(value) == value.s

\* (value && typeof value === 'string') ? value : 'Unknown'
NameOrUnknown(value) == IF Truthy(value) /\ value.t = "string" THEN value.s ELSE Unknown

\* deals.forEach: stats.xDistribution[name] = (stats.xDistribution[name] || 0) + 1
Distribution(ds, column) ==
    LET counts[i \in 0..Len(ds)] ==
            IF i = 0 THEN <<>>
            ELSE ObjAdd(counts[i - 1], NameOrUnknown(Field(ds[i], column)), 1)
    IN  counts[Len(ds)]

StrategyStats(ds, cs, mappings, relationships, validation, brands) ==
    LET totalDealValue == TotalDealValue(ds)
        closedWonDeals == Cardinality({i \in 1..Len(ds) : IsWonDeal(ds[i])})
    IN  [totalDeals |-> Len(ds),
         totalCompanies |-> Len(cs),
         directMappings |-> Len(mappings),
         domainRelationships |-> Len(relationships),
         revenueAccuracy |->
             Cardinality({i \in 1..Len(validation) :
                 validation[i].winRate.num > 50 * validation[i].winRate.den}),
         totalRevenue |-> totalDealValue,
         totalBrands |-> brands.totalBrands,
         closedWonDeals |-> closedWonDeals,
         openDeals |-> Cardinality({i \in 1..Len(ds) : IsOpenDeal(ds[i])}),
         lostDeals |-> Cardinality({i \in 1..Len(ds) : IsLostDeal(ds[i])}),
         winRate |-> IF Len(ds) > 0 THEN Ratio(closedWonDeals * 100, Len(ds))
                     ELSE Ratio(0, 1),
         averageDealSize |-> IF Len(ds) > 0 THEN Ratio(totalDealValue, Len(ds))
                             ELSE Ratio(0, 1),
         mappingCoverage |-> IF Len(ds) > 0 THEN Ratio(Len(mappings) * 100, Len(ds))
                             ELSE Ratio(0, 1),
         pipelineDistribution |-> Distribution(ds, "Pipeline"),
         stageDistribution |-> Distribution(ds, "Deal Stage")]

----------------------------------------------------------------------------
(* The rows the two CSV files may hold.  A row is a function from column   *)
(* names to values; an absent or empty cell is undefined or null.          *)

DealRow(id, name, budget, amount, brand, stage, pipeline, primary, associated, won, closeDate) ==
    [column \in {"Record ID", "Deal Name", "Budget", "Amount", "Campaign Brand",
                 "Deal Stage", "Pipeline", "Associated Company IDs (Primary)",
                 "Associated Company", "Is Closed Won", "Close Date"} |->
        CASE column = "Record ID" -> id
          [] column = "Deal Name" -> name
          [] column = "Budget" -> budget
          [] column = "Amount" -> amount
          [] column = "Campaign Brand" -> brand
          [] column = "Deal Stage" -> stage
          [] column = "Pipeline" -> pipeline
          [] column = "Associated Company IDs (Primary)" -> primary
          [] column = "Associated Company" -> associated
          [] column = "Is Closed Won" -> won
          [] OTHER -> closeDate]

CompanyRow(id, name, domain, revenue) ==
    [column \in {"Record ID", "Company name", "Company Domain Name",
                 "Total Revenue"} |->
        CASE column = "Record ID" -> id
          [] column = "Company name" -> name
          [] column = "Company Domain Name" -> domain
          [] OTHER -> revenue]

DealA ==
    DealRow(Num(1), Str(<<"A", "d">>), Num(5), Num(9),
            Str(<<"A", ";", "B">>), Str(<<"C", "l", "o", "s", "e", "d", " ", "W", "o", "n">>), Str(<<"S", "a", "l", "e", "s">>), Str(<<"1", "0">>),
            Str(<<"A", "c", "m", "e">>), Undef, Str(<<"2", "0", "2", "4", "-", "0", "1", "-", "1", "5">>))

DealB ==
    DealRow(Num(2), Null, Str(<<"1", "2", " ", "U", "S", "D">>), Num(3),
            Str(<<"A", ";", "A">>), Str(<<"P", "r", "o", "p", "o", "s", "a", "l">>), Null, Num(10),
            Str(<<"A", "c", "m", "e", ";", " ", "Z", "e", "d">>), Bool(TRUE), Null)

DealC ==
    DealRow(Num(3), Str(<<"W", "e", "b">>), Null, Num(4),
            Num(7), Str(<<"C", "l", "o", "s", "e", "d", " ", "L", "o", "s", "t">>), Str(<<"S", "a", "l", "e", "s">>), Num(20),
            Str(<<"Z", "e", "d">>), Bool(FALSE), Undef)

DealD ==
    DealRow(Num(4), Str(<<"T", "v">>), Str(<<"$", "7">>), Null,
            Str(<<" ", "B", " ", ";">>), Null, Str(<<"R", "e", "t", "a", "i", "l">>), Str(<<" ">>),
            Str(<<";", "N", "i", "x">>), Undef, Undef)

DealE ==
    DealRow(Num(5), Str(<<"O", "o", "h">>), Num(2), Num(2),
            Str(<<>>), Str(<<"W", "O", "N", " ", "b", "a", "c", "k">>), Str(<<"S", "a", "l", "e", "s">>), Null,
            Str(<<"Z", "e", "d">>), Undef, Undef)

DealF ==
    DealRow(Num(6), Str(<<"P", "r">>), Num(3), Num(1),
            Str(<<"B">>), Str(<<"C", "l", "o", "s", "e", "d">>), Str(<<"R", "e", "t", "a", "i", "l">>), Str(<<" ", "1", "0">>),
            Str(<<"A", "c", "m", "e">>), Undef, Str(<<"2", "0", "2", "4", "-", "0", "2", "-", "0", "1">>))

DealG ==
    DealRow(Num(1), Str(<<"A", "d">>), Num(0), Num(-8),
            Str(<<"b", ";", "A">>), Str(<<"N", "e", "g", "o", "t", "i", "a", "t", "i", "o", "n">>), Str(<<"S", "a", "l", "e", "s">>), Undef,
            Str(<<"Z", "e", "d", ";", " ", ";", "Z", "e", "d">>), Bool(TRUE), Undef)

DealH ==
    DealRow(Num(8), Str(<<"A", "c", "m", "e", " ", "t", "v">>), Num(1), Num(6),
            Str(<<"A">>), Str(<<"C", "l", "o", "s", "e", "d", " ", "W", "o", "n">>), Str(<<"S", "a", "l", "e", "s">>), Num(20),
            Undef, Undef, Undef)

\* A close date that is no date
DealI ==
    DealRow(Num(9), Str(<<"B", "a", "d">>), Num(4), Num(4),
            Str(<<"A">>), Str(<<"C", "l", "o", "s", "e", "d", " ", "W", "o", "n">>), Str(<<"S", "a", "l", "e", "s">>), Num(10),
            Str(<<"A", "c", "m", "e">>), Undef, Str(<<"n", "/", "a">>))

\* A name and a stage that dynamicTyping has read as numbers
DealJ ==
    DealRow(Num(11), Num(2024), Num(4), Num(4),
            Str(<<"A">>), Num(3), Str(<<"S", "a", "l", "e", "s">>), Num(10),
            Str(<<"A", "c", "m", "e">>), Bool(FALSE), Undef)

\* The deal and the company of the specification's example
ExampleDeal ==
    DealRow(Num(1), Undef, Num(5000), Undef,
            Str(<<"A", "c", "m", "e", ";", "Z", "e", "d">>), Str(<<"C", "l", "o", "s", "e", "d", " ", "W", "o", "n">>), Undef, Str(<<"1", "0">>),
            Undef, Undef, Undef)

ExampleCompany ==
    CompanyRow(Str(<<"1", "0">>), Str(<<"A", "c", "m", "e", " ", "C", "o", "r", "p">>),
               Str(<<"a", "c", "m", "e", ".", "c", "o", "m">>), Undef)

AcmeCorp ==
    CompanyRow(Num(10), Str(<<"A", "c", "m", "e", " ", "C", "o", "r", "p">>),
               Str(<<"w", "w", "w", ".", "a", "c", "m", "e", ".", "c", "o", "m">>), Num(100))

AcmeShop ==
    CompanyRow(Str(<<"1", "0">>), Str(<<"A", "c", "m", "e", " ", "S", "h", "o", "p">>),
               Str(<<"s", "h", "o", "p", ".", "a", "c", "m", "e", ".", "c", "o", "m">>), Str(<<"1", "0", "0">>))

AcmeTwin ==
    CompanyRow(Num(10), Str(<<"A", "c", "m", "e", " ", "T", "w", "i", "n">>),
               Str(<<"A", "C", "M", "E", ".", "c", "o", "m", " ">>), Null)

AcmeLate ==
    CompanyRow(Num(20), Null,
               Str(<<"a", "c", "m", "e", ".", "c", "o", "m">>), Str(<<"n", "/", "a">>))

UkMail ==
    CompanyRow(Num(30), Str(<<"U", "k", " ", "M", "a", "i", "l">>),
               Str(<<"m", "a", "i", "l", ".", "a", "c", "m", "e", ".", "c", "o", ".", "u", "k">>), Num(5))

UkOther ==
    CompanyRow(Num(31), Str(<<"O", "t", "h", "e", "r">>),
               Str(<<"x", ".", "c", "o", ".", "u", "k">>), Num(7))

NoDomain ==
    CompanyRow(Num(40), Str(<<"S", "o", "l", "o">>),
               Str(<<" ", " ">>), Num(900))

OddDomain ==
    CompanyRow(Num(41), Str(<<"O", "d", "d">>),
               Num(7), Num(900))

AcmeTiny ==
    CompanyRow(Num(10), Str(<<"T", "i", "n", "y">>), Undef, Num(2))

AcmeDebt ==
    CompanyRow(Num(20), Str(<<"D", "e", "b", "t">>), Undef, Num(-50))

DealPool == {DealA, DealB, DealC, DealE}

CompanyPool == {AcmeCorp, AcmeShop, AcmeTwin, AcmeLate, UkMail}

----------------------------------------------------------------------------
(* Bounds and inputs                                                       *)

MaxDeals == 2
MaxCompanies == 2

SeqsUpTo(S, n) == UNION {[1..k -> S] : k \in 0..n}

\* Company files loaded with every deal file of up to MaxDeals rows
FewCompanies ==
    {<<>>, <<AcmeShop, AcmeCorp>>, <<AcmeLate, AcmeCorp, AcmeTwin>>,
     <<UkMail, NoDomain, UkOther, OddDomain>>, <<AcmeDebt, AcmeTiny>>}

\* Deal files loaded with every company file of up to MaxCompanies rows
FewDeals == {<<DealA, DealF>>, <<DealH, DealC>>, <<DealA, DealB, DealH>>}

\* More deal files: with a cell that is malformed, with a deal whose cells
\* are blank, with a deal of negative amount
OddDeals ==
    {<<DealI>>, <<DealJ>>, <<DealA, DealI>>,
     <<DealD>>, <<DealD, DealA>>, <<DealA, DealD>>, <<DealD, DealC>>, <<DealB, DealD>>,
     <<DealG>>, <<DealG, DealC>>, <<DealC, DealG>>, <<DealA, DealG>>, <<DealG, DealE>>}

ExampleDeals == {<<ExampleDeal>>}

DealFiles == SeqsUpTo(DealPool, MaxDeals) \cup FewDeals \cup OddDeals \cup ExampleDeals

CompanyFilesFor(ds) ==
    FewCompanies
    \cup (IF ds \in FewDeals THEN SeqsUpTo(CompanyPool, MaxCompanies) ELSE {})
    \cup (IF ds \in ExampleDeals THEN {<<ExampleCompany>>} ELSE {})

SearchTerms == {<<>>, <<"T", "w">>}

\* The tabs selected, of the five the page has: the first, and the one
\* whose table sorts
Tabs == {"overview", "revenue-validation"}

----------------------------------------------------------------------------
(* The component                                                           *)

\* A memo after domainMapping throws: brandMapping on a close date that is
\* no date, revenueValidation on a stage that is no string, the filter on a
\* searched field that is no string.
RenderThrows(ds, combined, term) ==
    \/ BrandMappingThrows(ds)
    \/ RevenueValidationThrows(ds)
    \/ FilteredRelationshipsThrows(combined, term)

\* Array.prototype.sort((a, b) => b.totalMediaBudget - a.totalMediaBudget):
\* stable, descending, in place
InsertByMediaBudget(sorted, item) ==
    SelectSeq(sorted, LAMBDA x : x.totalMediaBudget >= item.totalMediaBudget)
    \o <<item>> \o SelectSeq(sorted, LAMBDA x : x.totalMediaBudget < item.totalMediaBudget)

SortByMediaBudget(list) ==
    LET sorted[i \in 0..Len(list)] ==
            IF i = 0 THEN <<>> ELSE InsertByMediaBudget(sorted[i - 1], list[i])
    IN  sorted[Len(list)]

\* useMemo(..., [deals]): the array of the last render unless deals changed
RevenueValidationMemo(ds) ==
    IF ds = deals THEN revenueValidation ELSE RevenueValidation(ds)

\* The array after the JSX has been evaluated: the table of the
\* revenue-validation tab sorts it in place.  The loading and the error
\* screen return before the tabs.
RevenueValidationShown(list, tab, isLoading, message) ==
    IF ~isLoading /\ message = "null" /\ tab = "revenue-validation"
    THEN SortByMediaBudget(list)
    ELSE list

\* One render: every memo evaluated, in the order of the source, from the
\* state (ds, cs, term, tab) and the memos before it, and then the JSX.
\* A render that throws commits none of the memos from brandMapping on.
Render(ds, cs, term, tab) ==
    /\ consoleLog' = DirectIdMemo(ds, cs).log
    /\ directIdMapping' = DirectIdMapping(ds, cs)
    /\ domainGroups' = DomainGroups(cs, domainGroups)
    /\ domainMapping' = DomainMapping(cs, directIdMapping', domainGroups)
    /\ revenueValidationById' = RevenueValidationById(ds, cs)
    /\ renderError' =
           RenderThrows(ds, CombinedRelationships(directIdMapping', domainMapping'), term)
    /\ IF renderError'
       THEN UNCHANGED <<brandMapping, revenueValidation, combinedRelationships,
                        filteredRelationships, strategyStats>>
       ELSE /\ brandMapping' = BrandMapping(ds)
            /\ revenueValidation' =
                   RevenueValidationShown(RevenueValidationMemo(ds), tab, loading', error')
            /\ combinedRelationships' =
                   CombinedRelationships(directIdMapping', domainMapping')
            /\ filteredRelationships' =
                   FilteredRelationships(combinedRelationships', term)
            /\ strategyStats' =
                   StrategyStats(ds, cs, directIdMapping', domainMapping',
                                 RevenueValidationMemo(ds), brandMapping')

\* The first render: useState's initial values, no data yet.
Init ==
    /\ pc = "mount"
    /\ deals = <<>>
    /\ companies = <<>>
    /\ loading = TRUE
    /\ error = "null"
    /\ activeStrategy = "overview"
    /\ searchTerm = <<>>
    /\ dealsFetched = <<>>
    /\ consoleLog = <<>>
    /\ renderError = FALSE
    /\ directIdMapping = <<>>
    /\ domainGroups = <<>>
    /\ domainMapping = <<>>
    /\ brandMapping = BrandMapping(<<>>)
    /\ revenueValidation = <<>>
    /\ revenueValidationById = <<>>
    /\ combinedRelationships = <<>>
    /\ filteredRelationships = <<>>
    /\ strategyStats = StrategyStats(<<>>, <<>>, <<>>, <<>>, <<>>, BrandMapping(<<>>))

\* useEffect: loadData() starts, setLoading(true), setError(null).
LoadData ==
    /\ pc = "mount"
    /\ pc' = "fetchDeals"
    /\ loading' = TRUE
    /\ error' = "null"
    /\ UNCHANGED <<deals, companies, activeStrategy, searchTerm, dealsFetched>>
    /\ Render(deals, companies, searchTerm, activeStrategy)

\* fetch('/tylerdeals2.csv') answers OK.
FetchDealsOk(ds) ==
    /\ pc = "fetchDeals"
    /\ pc' = "fetchCompanies"
    /\ dealsFetched' = ds
    /\ UNCHANGED <<deals, companies, loading, error, activeStrategy, searchTerm, consoleLog,
                   directIdMapping, domainGroups, domainMapping, brandMapping,
                   revenueValidation, revenueValidationById, combinedRelationships,
                   filteredRelationships, strategyStats, renderError>>

\* A catch block with no finally after it: loading stays as it is
LoadFailedWithoutFinally(message) ==
    /\ pc' = "done"
    /\ error' = message
    /\ deals' = <<>>
    /\ companies' = <<>>
    /\ UNCHANGED <<loading, dealsFetched, activeStrategy, searchTerm>>
    /\ Render(<<>>, <<>>, searchTerm, activeStrategy)

\* catch and finally: setError, setDeals([]), setCompanies([]), setLoading(false).
LoadFailed(message) ==
    /\ pc' = "done"
    /\ error' = message
    /\ deals' = <<>>
    /\ companies' = <<>>
    /\ loading' = FALSE
    /\ dealsFetched' = <<>>
    /\ UNCHANGED <<activeStrategy, searchTerm>>
    /\ Render(<<>>, <<>>, searchTerm, activeStrategy)

FetchDealsFailed ==
    /\ pc = "fetchDeals"
    /\ LoadFailed("Failed to load deals data")

FetchCompaniesFailed ==
    /\ pc = "fetchCompanies"
    /\ LoadFailed("Failed to load companies data")

\* The companies file answers OK: both files are parsed, setDeals,
\* setCompanies, and finally setLoading(false), rendered together.
FetchCompaniesOk(cs) ==
    /\ pc = "fetchCompanies"
    /\ pc' = "done"
    /\ deals' = dealsFetched
    /\ companies' = cs
    /\ loading' = FALSE
    /\ dealsFetched' = <<>>
    /\ UNCHANGED <<error, activeStrategy, searchTerm>>
    /\ Render(dealsFetched, cs, searchTerm, activeStrategy)

\* The page (search box, tabs) is shown.
PageShown == pc = "done" /\ ~loading /\ error = "null" /\ ~renderError

\* onChange of the search box: the text has changed
SetSearchTerm(term) ==
    /\ PageShown
    /\ term # searchTerm
    /\ searchTerm' = term
    /\ UNCHANGED <<pc, deals, companies, loading, error, activeStrategy, dealsFetched>>
    /\ Render(deals, companies, term, activeStrategy)

\* onClick of a tab that is not the one shown: setActiveStrategy(tab.id)
SetActiveStrategy(tab) ==
    /\ PageShown
    /\ tab # activeStrategy
    /\ activeStrategy' = tab
    /\ UNCHANGED <<pc, deals, companies, loading, error, searchTerm, dealsFetched>>
    /\ Render(deals, companies, searchTerm, tab)

\* React evaluates the memos again on unchanged state.
Rerender ==
    /\ UNCHANGED <<pc, deals, companies, loading, error, activeStrategy, searchTerm,
                   dealsFetched>>
    /\ Render(deals, companies, searchTerm, activeStrategy)

\* window.location.reload(): the page starts over.
Reload ==
    /\ pc = "done"
    /\ pc' = "mount"
    /\ deals' = <<>>
    /\ companies' = <<>>
    /\ loading' = TRUE
    /\ error' = "null"
    /\ activeStrategy' = "overview"
    /\ searchTerm' = <<>>
    /\ dealsFetched' = <<>>
    /\ consoleLog' = <<>>
    /\ renderError' = FALSE
    /\ directIdMapping' = <<>>
    /\ domainGroups' = <<>>
    /\ domainMapping' = <<>>
    /\ brandMapping' = BrandMapping(<<>>)
    /\ revenueValidation' = <<>>
    /\ revenueValidationById' = <<>>
    /\ combinedRelationships' = <<>>
    /\ filteredRelationships' = <<>>
    /\ strategyStats' = StrategyStats(<<>>, <<>>, <<>>, <<>>, <<>>, BrandMapping(<<>>))

Next ==
    \/ LoadData
    \/ \E ds \in DealFiles : FetchDealsOk(ds)
    \/ FetchDealsFailed
    \/ \E cs \in CompanyFilesFor(dealsFetched) : FetchCompaniesOk(cs)
    \/ FetchCompaniesFailed
    \/ \E term \in SearchTerms : SetSearchTerm(term)
    \/ \E tab \in Tabs : SetActiveStrategy(tab)
    \/ Rerender
    \/ Reload

Spec == Init /\ [][Next]_vars

\* await fetch(...) of the deals file: the promise settles, with a failure
\* or with the file
AwaitDeals == FetchDealsFailed \/ (\E ds \in DealFiles : FetchDealsOk(ds))

\* await fetch(...) of the companies file
AwaitCompanies ==
    FetchCompaniesFailed \/ (\E cs \in CompanyFilesFor(dealsFetched) : FetchCompaniesOk(cs))

\* The effect runs once the component has mounted, and the two fetches
\* settle; what the user does (search, tabs, reload) may never happen.
FairSpec ==
    /\ Spec
    /\ WF_vars(LoadData)
    /\ WF_vars(AwaitDeals)
    /\ WF_vars(AwaitCompanies)

----------------------------------------------------------------------------
(* Properties of directIdMapping                                           *)

\* The deal's primary-company reference is absent, null or blank after trimming.
BlankReference(deal) ==
    \/ deal["Associated Company IDs (Primary)"] \in {Undef, Null}
    \/ Trim(StringOf(deal["Associated Company IDs (Primary)"])) = <<>>

\* The places in cs of the companies whose Record ID, as a string, equals
\* the deal's reference as a string.
Matching(deal, cs) ==
    {j \in 1..Len(cs) :
        StringOf(cs[j]["Record ID"]) = StringOf(deal["Associated Company IDs (Primary)"])}

Unmatched(deal, cs) == BlankReference(deal) \/ Matching(deal, cs) = {}

\* The deals of the state that have a reference and a company for it, in order
MatchedDeals == SelectSeq(deals, LAMBDA deal : ~Unmatched(deal, companies))

\* C1: in every pass over a non-empty Deals collection, the deals whose
\* reference is absent, null, blank or equal to no company's Record ID have no
\* mapping (the mappings are those of the other deals, in order) and are the
\* deals counted as unmapped by the pass, also when Companies is empty.
C1_UnmatchedDealsCounted ==
    deals # <<>> =>
        /\ Len(directIdMapping) = Len(MatchedDeals)
        /\ \A k \in 1..Len(directIdMapping) :
               directIdMapping[k].dealId = MatchedDeals[k]["Record ID"]
        /\ Len(consoleLog) = 1
        /\ \A k \in 1..Len(consoleLog) :
               consoleLog[k].unmapped = Len(deals) - Len(MatchedDeals)

\* C2: every mapping has confidence 100 and every domain relationship has
\* confidence 75, in directIdMapping and domainMapping and on their entries
\* in combinedRelationships and filteredRelationships.
C2_ConfidenceFixed ==
    /\ \A i \in 1..Len(directIdMapping) : directIdMapping[i].confidence = 100
    /\ \A i \in 1..Len(domainMapping) : domainMapping[i].confidence = 75
    /\ \A i \in 1..Len(combinedRelationships) :
           combinedRelationships[i].confidence =
               IF combinedRelationships[i].type = "deal-company" THEN 100 ELSE 75
    /\ \A i \in 1..Len(filteredRelationships) :
           filteredRelationships[i].confidence =
               IF filteredRelationships[i].type = "deal-company" THEN 100 ELSE 75

\* A search has kept a mapping and a domain relationship.
C2_Witness ==
    /\ searchTerm # <<>>
    /\ \E i \in 1..Len(filteredRelationships) :
           filteredRelationships[i].type = "deal-company"
    /\ \E i \in 1..Len(filteredRelationships) :
           filteredRelationships[i].type = "parent-child"

\* C3: no Record ID of a deal has more mappings than there are deals with
\* that Record ID, and there are no more mappings than deals.
C3_AtMostOneMappingPerDeal ==
    /\ Len(directIdMapping) <= Len(deals)
    /\ \A k \in 1..Len(directIdMapping) :
           Cardinality({m \in 1..Len(directIdMapping) :
               directIdMapping[m].dealId = directIdMapping[k].dealId})
           <= Cardinality({i \in 1..Len(deals) :
                  deals[i]["Record ID"] = directIdMapping[k].dealId})

\* A deal whose reference equals, as strings, the Record ID of two companies
\* has been mapped.
C3_Witness ==
    /\ directIdMapping # <<>>
    /\ \E i \in 1..Len(deals) :
           /\ ~BlankReference(deals[i])
           /\ Cardinality(Matching(deals[i], companies)) >= 2

\* The mapping m is the pair of the deal and the company, with the
\* company's id and name and the deal's fields.
PairEmitted(m, deal, company) ==
    /\ m.dealId = deal["Record ID"]
    /\ m.dealName = Or(deal["Deal Name"], Str(UnnamedDeal))
    /\ m.companyId = company["Record ID"]
    /\ m.companyName = Or(company["Company name"], Str(UnnamedCompany))
    /\ m.amount = ParseFloatOrZero(deal["Budget"])
    /\ m.campaignBrand = Or(deal["Campaign Brand"], Str(<<>>))
    /\ m.dealStage = Or(deal["Deal Stage"], Str(Unknown))
    /\ m.pipeline = Or(deal["Pipeline"], Str(Unknown))
    /\ m.closeDate = deal["Close Date"]

\* C4: the mappings are, in the order of the deals, one for every deal with
\* a non-blank reference that equals some company's Record ID as strings:
\* the pair of that deal and the first such company, whatever the types of
\* the two identifiers.
C4_MatchedPairEmitted ==
    /\ Len(directIdMapping) = Len(MatchedDeals)
    /\ \A k \in 1..Len(MatchedDeals) :
           PairEmitted(directIdMapping[k], MatchedDeals[k],
                       companies[Least(Matching(MatchedDeals[k], companies))])

\* A deal has been mapped to a company whose Record ID is of another type
\* than the deal's reference.
C4_Witness ==
    \E k \in 1..Len(directIdMapping) :
        /\ Len(directIdMapping) = Len(MatchedDeals)
        /\ directIdMapping[k].companyId.t
               # MatchedDeals[k]["Associated Company IDs (Primary)"].t

----------------------------------------------------------------------------
(* Properties of domainMapping                                             *)

\* The company has a domain that is text and not blank.
NonBlankDomain(company) ==
    /\ company["Company Domain Name"].t = "string"
    /\ Trim(company["Company Domain Name"].s) # <<>>

\* Both companies are members of one group of domainGroups.
InSameGroup(c1, c2) ==
    \E g \in 1..Len(domainGroups) :
        /\ \E i \in 1..Len(domainGroups[g].members) : domainGroups[g].members[i] = c1
        /\ \E i \in 1..Len(domainGroups[g].members) : domainGroups[g].members[i] = c2

\* The relationships of domainMapping for a root domain, in order
RelationshipsOf(domain) == SelectSeq(domainMapping, LAMBDA r : r.domain = domain)

\* rels are the relationships of parent members[p] with every other member
\* as child, one each, in the order of the members.
ChildrenOf(members, p, rels) ==
    /\ Len(rels) = Len(members) - 1
    /\ \A k \in 1..Len(rels) :
           /\ rels[k].parentId = members[p]["Record ID"]
           /\ rels[k].childId = members[IF k < p THEN k ELSE k + 1]["Record ID"]

\* C5: every group of two or more companies has one member, the parent, such
\* that the relationships of the group are one for every other member, that
\* member being the child and the parent member the parent.
C5_EveryOtherMemberIsChild ==
    \A g \in 1..Len(domainGroups) :
        Len(domainGroups[g].members) >= 2 =>
            \E p \in 1..Len(domainGroups[g].members) :
                ChildrenOf(domainGroups[g].members, p,
                           RelationshipsOf(domainGroups[g].domain))

\* The number of mappings to the company, and its declared revenue
DealCountOf(company) ==
    Cardinality({m \in 1..Len(directIdMapping) :
        directIdMapping[m].companyId = company["Record ID"]})

TotalRevenueOf(company) == ParseFloatOrZero(company["Total Revenue"])

\* members[p] comes before members[q] as parent: more mappings, or as many
\* and more revenue, or as many of both and an earlier place.
Before(members, p, q) ==
    \/ DealCountOf(members[p]) > DealCountOf(members[q])
    \/ /\ DealCountOf(members[p]) = DealCountOf(members[q])
       /\ TotalRevenueOf(members[p]) > TotalRevenueOf(members[q])
    \/ /\ DealCountOf(members[p]) = DealCountOf(members[q])
       /\ TotalRevenueOf(members[p]) = TotalRevenueOf(members[q])
       /\ p < q

LowerCasedRoot(chars) ==
    Join(SliceLastTwo(Split(StripWww(ToLowerCase(chars)), ".")), ".")

\* The key of a domain: lower-cased, without a leading "www.", without the
\* white space around it, its last two labels
TrimmedRoot(chars) ==
    Join(SliceLastTwo(Split(Trim(StripWww(ToLowerCase(chars))), ".")), ".")

\* key[i] being the key of the domain of companies[i]: companies with a
\* non-blank domain share a group exactly when their domains have the same key; a group of one has no relationship; a company
\* without a domain is in no group; every relationship is between two
\* members of a group of two or more.
GroupedBy(key) ==
    /\ \A i, j \in 1..Len(companies) :
           NonBlankDomain(companies[i]) /\ NonBlankDomain(companies[j]) =>
               (InSameGroup(companies[i], companies[j]) <=> key[i] = key[j])
    /\ \A g \in 1..Len(domainGroups) :
           /\ Len(domainGroups[g].members) = 1 =>
                  RelationshipsOf(domainGroups[g].domain) = <<>>
           /\ \A i \in 1..Len(domainGroups[g].members) :
                  NonBlankDomain(domainGroups[g].members[i])
    /\ \A k \in 1..Len(domainMapping) :
           \E g \in 1..Len(domainGroups) :
               /\ domainGroups[g].domain = domainMapping[k].domain
               /\ Len(domainGroups[g].members) >= 2
               /\ \E i, j \in 1..Len(domainGroups[g].members) :
                      /\ domainGroups[g].members[i]["Record ID"]
                             = domainMapping[k].parentId
                      /\ domainGroups[g].members[j]["Record ID"]
                             = domainMapping[k].childId

\* C7 as stated: the key of a group is the lower-cased domain without a
\* leading "www.", its last two labels.
C7_GroupedByLowerCasedRoot ==
    GroupedBy([i \in 1..Len(companies) |->
                  IF NonBlankDomain(companies[i])
                  THEN LowerCasedRoot(companies[i]["Company Domain Name"].s)
                  ELSE <<>>])

\* C7, amended: the key also drops the white space around the domain, and
\* only domains that are text are grouped; every group is keyed by the key
\* of its members' domains ("mail.acme.co.uk" by "co.uk").
C7_GroupedByTrimmedRoot ==
    /\ GroupedBy([i \in 1..Len(companies) |->
                     IF NonBlankDomain(companies[i])
                     THEN TrimmedRoot(companies[i]["Company Domain Name"].s)
                     ELSE <<>>])
    /\ \A g \in 1..Len(domainGroups) :
           \A i \in 1..Len(domainGroups[g].members) :
               domainGroups[g].domain =
                   TrimmedRoot(domainGroups[g].members[i]["Company Domain Name"].s)

\* Two companies share a group although their lower-cased domains without
\* "www." differ in their last two labels, and the group has a relationship.
C7_Witness ==
    \E g \in 1..Len(domainGroups) :
        /\ RelationshipsOf(domainGroups[g].domain) # <<>>
        /\ \E i, j \in 1..Len(domainGroups[g].members) :
               LowerCasedRoot(domainGroups[g].members[i]["Company Domain Name"].s)
                   # LowerCasedRoot(domainGroups[g].members[j]["Company Domain Name"].s)

\* C8: a render on the same Companies and the same mappings leaves the
\* groups and the relationships (hence the parents) as they were.
C8_DomainMappingIdempotent ==
    [][(companies' = companies /\ directIdMapping' = directIdMapping) =>
           (domainGroups' = domainGroups /\ domainMapping' = domainMapping)]_vars

\* The memos have been evaluated again (after a search) on companies that
\* have relationships.
C8_Witness ==
    /\ pc = "done"
    /\ searchTerm # <<>>
    /\ domainMapping # <<>>

----------------------------------------------------------------------------
(* Properties of brandMapping and strategyStats                            *)

\* The deal's budget, 0 when absent or unparsable
BudgetOf(deal) == ParseFloatOrZero(deal["Budget"])

\* The deal's brand tags: split on ";", trimmed, the empty ones dropped
TagsOf(deal) == SplitList(deal["Campaign Brand"])

HasTag(deal, brand) == \E t \in 1..Len(TagsOf(deal)) : TagsOf(deal)[t] = brand

\* The sum of the budgets of the deals of ds
BudgetSum(ds) ==
    LET sum[i \in 0..Len(ds)] == IF i = 0 THEN 0 ELSE sum[i - 1] + BudgetOf(ds[i])
    IN  sum[Len(ds)]

\* The sum over the deals of ds of the budget times the number of tags
TaggedBudgetSum(ds) ==
    LET sum[i \in 0..Len(ds)] ==
            IF i = 0 THEN 0 ELSE sum[i - 1] + BudgetOf(ds[i]) * Len(TagsOf(ds[i]))
    IN  sum[Len(ds)]

\* C9: the revenue of every brand is the sum of the budgets of the deals
\* whose tag list contains the brand, every tagged brand has a metric, and
\* totalBrandRevenue is the sum over the deals of budget times number of tags.
C9_FullBudgetToEachBrand ==
    ~renderError =>
        /\ \A i \in 1..Len(brandMapping.brandMetrics) :
               brandMapping.brandMetrics[i].revenue =
                   BudgetSum(SelectSeq(deals, LAMBDA deal :
                                 HasTag(deal, brandMapping.brandMetrics[i].brand)))
        /\ \A d \in 1..Len(deals) :
               \A t \in 1..Len(TagsOf(deals[d])) :
                   \E i \in 1..Len(brandMapping.brandMetrics) :
                       brandMapping.brandMetrics[i].brand = TagsOf(deals[d])[t]
        /\ brandMapping.totalBrandRevenue =
               TaggedBudgetSum(deals)

\* C10: for deals that are not empty, totalRevenue is the sum of the deals'
\* budgets (0 for an absent or unparsable one), whatever their amounts and
\* mappings, and averageDealSize is totalRevenue over the number of deals
\* (in the stats of a render that has not thrown).
C10_TotalRevenueIsBudgetSum ==
    (deals # <<>> /\ ~renderError) =>
        /\ strategyStats.totalRevenue = BudgetSum(deals)
        /\ strategyStats.averageDealSize.num = strategyStats.totalRevenue
        /\ strategyStats.averageDealSize.den = Len(deals)

\* The stats count the budget of a deal without mapping whose amount is
\* another number, and a deal with an unparsable budget as 0.
C10_Witness ==
    /\ ~renderError
    /\ strategyStats.totalRevenue > 0
    /\ Len(directIdMapping) < Len(deals)
    /\ \E d \in 1..Len(deals) :
           /\ Unmatched(deals[d], companies)
           /\ BudgetOf(deals[d]) > 0
           /\ deals[d]["Amount"] # Num(BudgetOf(deals[d]))
    /\ \E d \in 1..Len(deals) :
           /\ deals[d]["Budget"].t = "string"
           /\ BudgetOf(deals[d]) = 0

----------------------------------------------------------------------------
(* Budget and amount                                                       *)

\* Values an Amount cell may hold instead of the one it holds
AmountValues == {Null, Num(3)}

\* The deal files that differ from ds in Amount cells only
AmountVariants(ds) ==
    {[i \in 1..Len(ds) |-> [ds[i] EXCEPT !["Amount"] = amounts[i]]] :
         amounts \in [1..Len(ds) -> AmountValues]}

\* The stats of a pass over ds and the companies loaded, for a ds with the
\* Direct-ID Mappings of this pass (and so with its domain relationships,
\* which are derived from the companies and the mappings)
StatsOfPass(ds) ==
    StrategyStats(ds, companies, directIdMapping, domainMapping,
                  RevenueValidation(ds), BrandMapping(ds))

\* The stats without the count taken from the Revenue Validator's output
DealValueStats(stats) == [stats EXCEPT !.revenueAccuracy = 0]

\* C11 as stated: a deal file that differs from the loaded one in Amount
\* cells only yields the same Direct-ID Mappings, the same BrandMetrics and
\* the same StrategyStats, field by field.
C11_AmountNeverInfluences ==
    ~renderError =>
        \A variant \in AmountVariants(deals) :
            /\ DirectIdMapping(variant, companies) = directIdMapping
            /\ BrandMapping(variant).brandMetrics = brandMapping.brandMetrics
            /\ StatsOfPass(variant) = strategyStats

\* C11 amended: a deal file that differs from the loaded one in Amount cells
\* only yields the same Direct-ID Mappings, the same BrandMetrics and the same
\* StrategyStats but for revenueAccuracy, which counts companies the Revenue
\* Validator emits (and it emits a company for its PO amount alone).
C11_AmountNeverInfluencesDealValue ==
    ~renderError =>
        \A variant \in AmountVariants(deals) :
            /\ DirectIdMapping(variant, companies) = directIdMapping
            /\ BrandMapping(variant).brandMetrics = brandMapping.brandMetrics
            /\ DealValueStats(StatsOfPass(variant)) = DealValueStats(strategyStats)

\* A pass with a mapping and a brand metric over deals whose amounts are
\* numbers other than their budgets, one of them named for a company that
\* has no budget.
C11_Witness ==
    /\ ~renderError
    /\ directIdMapping # <<>>
    /\ brandMapping.brandMetrics # <<>>
    /\ strategyStats.totalRevenue > 0
    /\ \A d \in 1..Len(deals) :
           /\ deals[d]["Amount"].t = "number"
           /\ deals[d]["Amount"].n # BudgetOf(deals[d])
    /\ \E d \in 1..Len(deals) :
           /\ BudgetOf(deals[d]) = 0
           /\ SplitList(deals[d]["Associated Company"]) # <<>>

----------------------------------------------------------------------------
(* Properties of combinedRelationships and filteredRelationships           *)

\* term, compared without regard to case, is a substring of the text of
\* field f of the entry
TermInField(rel, f, term) ==
    /\ f \in DOMAIN rel
    /\ rel[f] \notin {Undef, Null}
    /\ Includes(ToLowerCase(StringOf(rel[f])), ToLowerCase(term))

\* term is a substring of the deal name, the company name, the parent name,
\* the child name or the brand of the entry
TermInEntry(rel, term) ==
    \E f \in {"dealName", "companyName", "parentName", "childName", "campaignBrand"} :
        TermInField(rel, f, term)

\* The entries of the combined sequence of this pass
CombinedOfPass == CombinedRelationships(directIdMapping, domainMapping)

\* C12: with an empty search term the filter returns the combined sequence
\* as it is; with a term that is a substring of no searched field of any
\* entry the filter returns the empty sequence.
C12_EmptyTermAllNoMatchNone ==
    /\ searchTerm = <<>> =>
           ~renderError /\ filteredRelationships = CombinedOfPass
    /\ (searchTerm # <<>>
        /\ \A i \in 1..Len(CombinedOfPass) : ~TermInEntry(CombinedOfPass[i], searchTerm)) =>
           ~renderError /\ filteredRelationships = <<>>

\* C13: with a search term that is not empty the filter returns the entries
\* of the combined sequence that hold the term in a searched field, in their
\* order, whatever the types of the fields.
C13_FilterKeepsMatchingEntries ==
    searchTerm # <<>> =>
        /\ ~renderError
        /\ filteredRelationships =
               SelectSeq(CombinedOfPass, LAMBDA rel : TermInEntry(rel, searchTerm))

\* The fields of entry that item has
Untagged(entry, item) == [f \in DOMAIN item |-> entry[f]]

\* C14: the combined sequence is the Direct-ID Mappings in their order, each
\* tagged "Enhanced ID", then the DomainRelationships in their order, each
\* tagged "Domain"; its length is the sum of the two lengths and no Domain
\* entry comes before an Enhanced ID entry.
C14_MappingsThenRelationships ==
    ~renderError =>
        /\ Len(combinedRelationships) = Len(directIdMapping) + Len(domainMapping)
        /\ \A i \in 1..Len(directIdMapping) :
               /\ combinedRelationships[i].strategy = "Enhanced ID"
               /\ Untagged(combinedRelationships[i], directIdMapping[i]) = directIdMapping[i]
        /\ \A j \in 1..Len(domainMapping) :
               /\ combinedRelationships[Len(directIdMapping) + j].strategy = "Domain"
               /\ Untagged(combinedRelationships[Len(directIdMapping) + j], domainMapping[j])
                      = domainMapping[j]
        /\ \A i, j \in 1..Len(combinedRelationships) :
               (combinedRelationships[i].strategy = "Domain"
                /\ combinedRelationships[j].strategy = "Enhanced ID") => j < i

\* A pass that combines two mappings and two domain relationships
C14_Witness ==
    /\ ~renderError
    /\ Len(directIdMapping) >= 2
    /\ Len(domainMapping) >= 2
    /\ directIdMapping[1] # directIdMapping[2]
    /\ domainMapping[1] # domainMapping[2]
    /\ Len(combinedRelationships) = Len(directIdMapping) + Len(domainMapping)

----------------------------------------------------------------------------
(* Properties of strategyStats: counts and histograms                      *)

\* The deal's stage in lower case, empty when the deal has none
StageText(deal) ==
    IF deal["Deal Stage"] \in {Undef, Null} THEN <<>>
    ELSE ToLowerCase(StringOf(deal["Deal Stage"]))

WonFlag(deal) == deal["Is Closed Won"] = Bool(TRUE)

CountedWon(deal) == WonFlag(deal) \/ Includes(StageText(deal), Won)

CountedLost(deal) == Includes(StageText(deal), Lost)

CountedOpen(deal) ==
    ~CountedWon(deal) /\ ~CountedLost(deal) /\ ~Includes(StageText(deal), Closed)

\* C15: closedWonDeals counts the deals whose stage contains "won" or whose
\* won flag is true, lostDeals those whose stage contains "lost", openDeals
\* those that are neither and whose stage does not contain "closed"; winRate
\* is closedWonDeals over the number of deals as a percentage, 0 without deals.
C15_WonLostOpenCounts ==
    ~renderError =>
        /\ strategyStats.closedWonDeals =
               Cardinality({d \in 1..Len(deals) : CountedWon(deals[d])})
        /\ strategyStats.lostDeals =
               Cardinality({d \in 1..Len(deals) : CountedLost(deals[d])})
        /\ strategyStats.openDeals =
               Cardinality({d \in 1..Len(deals) : CountedOpen(deals[d])})
        /\ IF deals = <<>> THEN strategyStats.winRate.num = 0
           ELSE strategyStats.winRate.num * Len(deals) =
                    strategyStats.closedWonDeals * 100 * strategyStats.winRate.den

\* The histogram key of the deal for a column: its text, "Unknown" when the
\* cell is absent or empty
HistogramKey(deal, column) ==
    IF deal[column] \in {Undef, Null, Str(<<>>)} THEN Unknown
    ELSE StringOf(deal[column])

\* histogram has one entry per key of the deals for the column, holding the
\* number of deals with that key, and its counts sum to the number of deals
CountsEveryDealOnce(histogram, column) ==
    /\ \A i, j \in 1..Len(histogram) : histogram[i].key = histogram[j].key => i = j
    /\ \A i \in 1..Len(histogram) :
           /\ histogram[i].value >= 1
           /\ histogram[i].value =
                  Cardinality({d \in 1..Len(deals) :
                                  HistogramKey(deals[d], column) = histogram[i].key})
    /\ \A d \in 1..Len(deals) :
           \E i \in 1..Len(histogram) : histogram[i].key = HistogramKey(deals[d], column)
    /\ SumValues(histogram) = strategyStats.totalDeals
    /\ strategyStats.totalDeals = Len(deals)

----------------------------------------------------------------------------
(* Properties of revenueValidation, keyed by company name                  *)

\* The deal's PO amount, 0 when absent or unparsable
AmountOf(deal) == ParseFloatOrZero(deal["Amount"])

\* The company names of the deal: its 'Associated Company' field split on
\* ";", trimmed, the empty segments dropped
NamesOf(deal) == SplitList(deal["Associated Company"])

\* How many times the deal names the company
TimesNamed(deal, name) ==
    Cardinality({k \in 1..Len(NamesOf(deal)) : NamesOf(deal)[k] = name})

\* The sum over the deals of what the deal weighs (weight[d]) for every
\* time it names the company
NamedSum(name, weight) ==
    LET sum[d \in 0..Len(deals)] ==
            IF d = 0 THEN 0 ELSE sum[d - 1] + weight[d] * TimesNamed(deals[d], name)
    IN  sum[Len(deals)]

BudgetNamed(name) == NamedSum(name, [d \in 1..Len(deals) |-> BudgetOf(deals[d])])

AmountNamed(name) == NamedSum(name, [d \in 1..Len(deals) |-> AmountOf(deals[d])])

CountNamed(name) == NamedSum(name, [d \in 1..Len(deals) |-> 1])

\* C17: every company of the output has, for every deal and every name of
\* the deal that is the company's, the deal's full budget in totalMediaBudget,
\* its full amount in totalPOAmount and 1 in dealCount, whatever other
\* companies the deal names; the averages are the totals over dealCount.
C17_FullAmountsToEachCompany ==
    ~renderError =>
        \A i \in 1..Len(revenueValidation) :
            LET r == revenueValidation[i]
            IN  /\ r.totalMediaBudget = BudgetNamed(r.companyName)
                /\ r.totalPOAmount = AmountNamed(r.companyName)
                /\ r.dealCount = CountNamed(r.companyName)
                /\ r.dealCount >= 1
                /\ r.avgMediaBudget.num * r.dealCount = r.totalMediaBudget * r.avgMediaBudget.den
                /\ r.avgPOAmount.num * r.dealCount = r.totalPOAmount * r.avgPOAmount.den

\* A deal that lists two companies, both in the output, one of them with
\* another deal
C17_Witness ==
    /\ ~renderError
    /\ \E d \in 1..Len(deals) :
           /\ Len(NamesOf(deals[d])) = 2
           /\ NamesOf(deals[d])[1] # NamesOf(deals[d])[2]
           /\ BudgetOf(deals[d]) > 0
           /\ AmountOf(deals[d]) # BudgetOf(deals[d])
           /\ \A k \in 1..2 :
                  \E i \in 1..Len(revenueValidation) :
                      revenueValidation[i].companyName = NamesOf(deals[d])[k]
    /\ \E i \in 1..Len(revenueValidation) : revenueValidation[i].dealCount >= 2

\* The number of times the deals that pass test name the company
\* (test[d] for deals[d])
CountNamedWhere(name, test) ==
    NamedSum(name, [d \in 1..Len(deals) |-> IF test[d] THEN 1 ELSE 0])

\* The stage the validator reads: the deal's stage in lower case, "unknown"
\* for a deal without stage
ValidatorStage(deal) ==
    IF deal["Deal Stage"] \in {Undef, Null, Str(<<>>)} THEN ToLowerCase(Unknown)
    ELSE ToLowerCase(StringOf(deal["Deal Stage"]))

\* The counters of every company of the output, won[d] telling whether
\* deals[d] is won: lost is a deal not won whose stage contains "lost", open
\* every other; winRate is wonDeals over dealCount times 100.
ClassifiedBy(won) ==
    \A i \in 1..Len(revenueValidation) :
        LET r == revenueValidation[i]
            lost == [d \in 1..Len(deals) |->
                        ~won[d] /\ Includes(ValidatorStage(deals[d]), Lost)]
            open == [d \in 1..Len(deals) |-> ~won[d] /\ ~lost[d]]
        IN  /\ r.wonDeals = CountNamedWhere(r.companyName, won)
            /\ r.lostDeals = CountNamedWhere(r.companyName, lost)
            /\ r.openDeals = CountNamedWhere(r.companyName, open)
            /\ r.winRate.num * r.dealCount = r.wonDeals * 100 * r.winRate.den

\* C18 as stated: a deal is won when its stage contains "won", by the stage
\* text alone.
C18_ClassifiedByStageAlone ==
    ~renderError =>
        ClassifiedBy([d \in 1..Len(deals) |-> Includes(ValidatorStage(deals[d]), Won)])

\* C18 amended: a deal is won when its won flag is true or its stage
\* contains "won".
C18_ClassifiedByFlagOrStage ==
    ~renderError =>
        ClassifiedBy([d \in 1..Len(deals) |->
                         WonFlag(deals[d]) \/ Includes(ValidatorStage(deals[d]), Won)])

\* A company of the output with a deal won by its flag alone and a lost deal
C18_Witness ==
    /\ ~renderError
    /\ \E d \in 1..Len(deals) :
           /\ WonFlag(deals[d])
           /\ ~Includes(ValidatorStage(deals[d]), Won)
           /\ \E i \in 1..Len(revenueValidation) :
                  /\ TimesNamed(deals[d], revenueValidation[i].companyName) >= 1
                  /\ revenueValidation[i].wonDeals >= 1
    /\ \E i \in 1..Len(revenueValidation) :
           /\ revenueValidation[i].wonDeals >= 1
           /\ revenueValidation[i].lostDeals >= 1

\* The company names the deals hold
AllNames == UNION {{NamesOf(deals[d])[k] : k \in 1..Len(NamesOf(deals[d]))} : d \in 1..Len(deals)}

Emitted(name) == \E i \in 1..Len(revenueValidation) : revenueValidation[i].companyName = name

\* C19: the output holds a company exactly when a deal names it and its
\* aggregated budget or its aggregated PO amount is not zero, and it holds
\* no company twice.
C19_EmittedIffNonZero ==
    ~renderError =>
        /\ \A name \in AllNames :
               Emitted(name) <=> (BudgetNamed(name) # 0 \/ AmountNamed(name) # 0)
        /\ \A i \in 1..Len(revenueValidation) :
               revenueValidation[i].companyName \in AllNames
        /\ \A i, j \in 1..Len(revenueValidation) :
               revenueValidation[i].companyName = revenueValidation[j].companyName => i = j

----------------------------------------------------------------------------
(* Properties of the revenueValidation keyed by company id                 *)

\* The place in companies of the company the deal's reference resolves to,
\* 0 when it resolves to none
ResolvedCompany(deal) ==
    IF Unmatched(deal, companies) THEN 0 ELSE Least(Matching(deal, companies))

\* The place in companies of the company of an entry of the output
CompanyOfEntry(r) ==
    Least({c \in 1..Len(companies) : ParseFloat(companies[c]["Record ID"]) = r.companyId})

\* The revenue the company declares, 0 when absent or unparsable
DeclaredOf(company) == ParseFloatOrZero(company["Total Revenue"])

\* The sum of the budgets of the deals whose reference resolves to companies[c]
CalculatedOf(c) ==
    BudgetSum(SelectSeq(deals, LAMBDA deal : ResolvedCompany(deal) = c))

\* max(0, 100 - |declared - calculated| / declared * 100) as a quotient with
\* a positive denominator, for a declared revenue that is not zero
AccuracyFormula(declared, calculated, variance) ==
    IF declared > 0
    THEN IF variance >= declared THEN Ratio(0, 1)
         ELSE Ratio(100 * declared - 100 * variance, declared)
    ELSE Ratio(100 * variance - 100 * declared, 0 - declared)

Distance(a, b) == IF a >= b THEN a - b ELSE b - a

\* Every entry of the output has the accuracy expected[i] for the declared
\* and calculated revenues of its company, and one between 0 and 100.
AccuracyIs(expected) ==
    \A i \in 1..Len(revenueValidationById) :
        /\ revenueValidationById[i].accuracy # NaN
        /\ revenueValidationById[i].accuracy.den > 0
        /\ revenueValidationById[i].accuracy.num * expected[i].den
               = expected[i].num * revenueValidationById[i].accuracy.den
        /\ revenueValidationById[i].accuracy.num >= 0
        /\ revenueValidationById[i].accuracy.num <= 100 * revenueValidationById[i].accuracy.den

\* C20 as stated: the accuracy of every emitted company is the formula when
\* its declared revenue is not zero and 0 when it is zero or absent,
\* calculated being the sum of the budgets of the deals that resolve to the
\* company; the accuracy lies between 0 and 100.
C20_AccuracyForNonZeroDeclared ==
    AccuracyIs([i \in 1..Len(revenueValidationById) |->
        LET c == CompanyOfEntry(revenueValidationById[i])
        IN  IF DeclaredOf(companies[c]) # 0
            THEN AccuracyFormula(DeclaredOf(companies[c]), CalculatedOf(c),
                                 Distance(DeclaredOf(companies[c]), CalculatedOf(c)))
            ELSE Ratio(0, 1)])

\* C20 amended: the accuracy of every emitted company is the formula when
\* its declared revenue is above zero and 0 when it is zero, negative, absent
\* or unparsable; the accuracy lies between 0 and 100.
C20_AccuracyForPositiveDeclared ==
    AccuracyIs([i \in 1..Len(revenueValidationById) |->
        LET c == CompanyOfEntry(revenueValidationById[i])
        IN  IF DeclaredOf(companies[c]) > 0
            THEN AccuracyFormula(DeclaredOf(companies[c]), CalculatedOf(c),
                                 Distance(DeclaredOf(companies[c]), CalculatedOf(c)))
            ELSE Ratio(0, 1)])

\* An emitted company whose declared revenue is above its calculated
\* revenue, with an accuracy strictly between 0 and 100
C20_Witness ==
    \E i \in 1..Len(revenueValidationById) :
        LET r == revenueValidationById[i]
            c == CompanyOfEntry(r)
        IN  /\ r.accuracy # NaN
            /\ r.accuracy.num > 0
            /\ r.accuracy.num < 100 * r.accuracy.den
            /\ CalculatedOf(c) > 0
            /\ DeclaredOf(companies[c]) > CalculatedOf(c)

----------------------------------------------------------------------------
(* Properties of the pass as a whole                                       *)

\* C21: a reconciliation pass never aborts: whatever the cells of Deals and
\* Companies hold, every memo of the render completes and yields its value.
C21_PassNeverAborts == ~renderError

\* C22: the display only reads the derived collections: while the page is
\* shown, whatever tabs and searches came before, each collection is what the
\* pass computes from Deals and Companies, element by element.
C22_DisplayOnlyReads ==
    PageShown =>
        /\ directIdMapping = DirectIdMapping(deals, companies)
        /\ domainMapping = DomainMapping(companies, directIdMapping, <<>>)
        /\ brandMapping = BrandMapping(deals)
        /\ revenueValidation = RevenueValidation(deals)
        /\ combinedRelationships = CombinedRelationships(directIdMapping, domainMapping)

BrandNamed(chars) ==
    {i \in 1..Len(brandMapping.brandMetrics) : brandMapping.brandMetrics[i].brand = chars}

ExampleLoaded == PageShown /\ deals = <<ExampleDeal>> /\ companies = <<ExampleCompany>>

\* C23: for the example (one deal of budget 5000 tagged "Acme;Zed", stage
\* "Closed Won", referring to company "10"; one company "10") the pass
\* yields one Mapping of confidence 100, amount 5000, won; no
\* DomainRelationship; revenue 5000 for brand Acme and for brand Zed; and a
\* winRate of 100.
C23_Example ==
    ExampleLoaded =>
        /\ Len(directIdMapping) = 1
        /\ directIdMapping[1].confidence = 100
        /\ directIdMapping[1].amount = 5000
        /\ directIdMapping[1].isClosedWon = Bool(TRUE)
        /\ domainMapping = <<>>
        /\ Len(brandMapping.brandMetrics) = 2
        /\ \A name \in {<<"A", "c", "m", "e">>, <<"Z", "e", "d">>} :
               /\ Cardinality(BrandNamed(name)) = 1
               /\ \A i \in BrandNamed(name) : brandMapping.brandMetrics[i].revenue = 5000
               /\ ObjGet(brandMapping.brandRevenue, name, 0) = 5000
        /\ strategyStats.winRate.num = 100 * strategyStats.winRate.den

\* The example has been loaded and shown, under some tab and search.
C23_Witness == ExampleLoaded /\ strategyStats.totalDeals = 1 /\ brandMapping.totalBrands = 2

----------------------------------------------------------------------------
(* Properties of the brand metrics                                         *)

\* The deals whose brand-tag list contains the brand
DealsTagged(brand) == {d \in 1..Len(deals) : HasTag(deals[d], brand)}

\* The stage name of the deal, "Unknown" when the cell is absent or empty
StageName(deal) == StringOf(Or(deal["Deal Stage"], Str(Unknown)))

WonDealsTagged(brand) ==
    {d \in DealsTagged(brand) : Includes(ToLowerCase(StageName(deals[d])), Won)}

NoBrandListedTwice ==
    \A d \in 1..Len(deals) :
        \A s, t \in 1..Len(TagsOf(deals[d])) :
            TagsOf(deals[d])[s] = TagsOf(deals[d])[t] => s = t

\* winRate of the metric is the percentage won of count
WinRateIs(metric, won, count) ==
    /\ metric.winRate.den > 0
    /\ metric.winRate.num * count = 100 * won * metric.winRate.den

WinRateWithinBounds(metric) ==
    /\ metric.winRate.den > 0
    /\ metric.winRate.num >= 0
    /\ metric.winRate.num <= 100 * metric.winRate.den

AvgDealSizeIs(metric) ==
    /\ metric.avgDealSize.den > 0
    /\ metric.avgDealSize.num * metric.dealCount = metric.revenue * metric.avgDealSize.den

\* C24: for every brand, winRate is the number of the brand's deals whose
\* stage name contains "won" over the number of the brand's deals, as a
\* percentage; avgDealSize is revenue over dealCount; winRate is within 0..100.
C24_BrandRates ==
    ~renderError =>
        \A i \in 1..Len(brandMapping.brandMetrics) :
            /\ WinRateIs(brandMapping.brandMetrics[i],
                         Cardinality(WonDealsTagged(brandMapping.brandMetrics[i].brand)),
                         Cardinality(DealsTagged(brandMapping.brandMetrics[i].brand)))
            /\ AvgDealSizeIs(brandMapping.brandMetrics[i])
            /\ WinRateWithinBounds(brandMapping.brandMetrics[i])

\* The primary-company references of the brand's deals that are not blank
ReferencesOf(brand) ==
    {deals[d]["Associated Company IDs (Primary)"] :
         d \in {e \in DealsTagged(brand) : ~BlankReference(deals[e])}}

\* The same references as identifiers, that is as text
IdentifiersOf(brand) == {StringOf(reference) : reference \in ReferencesOf(brand)}

\* C25: for every brand, companyCount is the number of distinct company
\* identifiers, compared as text, among the non-blank primary-company
\* references of the deals tagged with the brand.
C25_CompanyCountByIdentifier ==
    ~renderError =>
        \A i \in 1..Len(brandMapping.brandMetrics) :
            brandMapping.brandMetrics[i].companyCount =
                Cardinality(IdentifiersOf(brandMapping.brandMetrics[i].brand))

----------------------------------------------------------------------------
(* The order of the resolvers                                              *)

\* The Direct-ID Mappings of the Deals and Companies of the state whose
\* company has the identifier
MappingsOfCompany(id) ==
    {m \in 1..Len(DirectIdMapping(deals, companies)) :
         DirectIdMapping(deals, companies)[m].companyId = id}

\* C26: every relationship's parentDealCount is the number of Direct-ID
\* Mappings of the same Deals and Companies whose company is the parent, and
\* the relationships are those derived from these Mappings.
C26_ParentDealCountOfSamePass ==
    /\ \A r \in 1..Len(domainMapping) :
           domainMapping[r].parentDealCount =
               Cardinality(MappingsOfCompany(domainMapping[r].parentId))
    /\ domainMapping = DomainMapping(companies, DirectIdMapping(deals, companies), <<>>)

\* A relationship whose parent has a deal, next to a company of the same
\* group that has none
C26_Witness ==
    /\ PageShown
    /\ \E r \in 1..Len(domainMapping) :
           /\ domainMapping[r].parentDealCount >= 1
           /\ MappingsOfCompany(domainMapping[r].childId) = {}

----------------------------------------------------------------------------
(* The counters of strategyStats and of revenueValidation                  *)

\* C27: every deal is counted in at most one of closedWonDeals, openDeals
\* and lostDeals, so the three together never exceed totalDeals.
C27_AtMostOneCounterPerDeal ==
    ~renderError =>
        strategyStats.closedWonDeals + strategyStats.openDeals + strategyStats.lostDeals
            <= strategyStats.totalDeals

\* C28: for every company of the name-keyed validator, wonDeals, openDeals
\* and lostDeals add up to dealCount, and dealCount is the length of the
\* company's deal list.
C28_CountersPartitionDeals ==
    ~renderError =>
        \A i \in 1..Len(revenueValidation) :
            /\ revenueValidation[i].wonDeals + revenueValidation[i].openDeals
                   + revenueValidation[i].lostDeals = revenueValidation[i].dealCount
            /\ revenueValidation[i].dealCount = Len(revenueValidation[i].deals)

\* A company with a deal won by its flag alone and with deals in two counters
C28_Witness ==
    /\ ~renderError
    /\ \E i \in 1..Len(revenueValidation) :
           /\ revenueValidation[i].dealCount >= 2
           /\ revenueValidation[i].wonDeals >= 1
           /\ revenueValidation[i].wonDeals < revenueValidation[i].dealCount
           /\ \E d \in 1..Len(deals) :
                  /\ TimesNamed(deals[d], revenueValidation[i].companyName) >= 1
                  /\ WonFlag(deals[d])
                  /\ ~Includes(ValidatorStage(deals[d]), Won)

\* C29: for every brand, dealCount is the number of distinct deals whose
\* brand-tag list contains the brand, and the counts of the brand's pipeline
\* histogram and of its stage histogram each sum to that number.
C29_DealCountIsDistinctDeals ==
    ~renderError =>
        \A i \in 1..Len(brandMapping.brandMetrics) :
            /\ brandMapping.brandMetrics[i].dealCount =
                   Cardinality(DealsTagged(brandMapping.brandMetrics[i].brand))
            /\ SumValues(brandMapping.brandMetrics[i].pipelines) =
                   Cardinality(DealsTagged(brandMapping.brandMetrics[i].brand))
            /\ SumValues(brandMapping.brandMetrics[i].stages) =
                   Cardinality(DealsTagged(brandMapping.brandMetrics[i].brand))

----------------------------------------------------------------------------
(* Properties of loadData                                                  *)

\* The load has ended with both collections empty and the message set
EndedInError == error # "null" /\ deals = <<>> /\ companies = <<>>

\* A load that has ended is not loading, and has either no error or an error
\* with both collections empty
LoadEndsConsistent ==
    pc = "done" => (~loading /\ (error = "null" \/ EndedInError))

\* The deals fetch can only end the load by failing
DealsFailureStep ==
    (pc = "fetchDeals" /\ pc' = "done") => (error' # "null" /\ deals' = <<>> /\ companies' = <<>>)

\* The companies fetch ends the load with an error and nothing kept of the
\* deals fetched, or without error and with the deals fetched by this load
CompaniesStep ==
    (pc = "fetchCompanies" /\ pc' = "done") =>
        \/ error' # "null" /\ deals' = <<>> /\ companies' = <<>>
        \/ error' = "null" /\ deals' = dealsFetched

\* Deals and Companies are set together when a load ends, both having been
\* empty until then, or emptied together
SetTogether ==
    (deals' # deals \/ companies' # companies) =>
        \/ deals' = <<>> /\ companies' = <<>>
        \/ /\ pc = "fetchCompanies" /\ pc' = "done"
           /\ deals = <<>> /\ companies = <<>>
           /\ error' = "null"

====
